---- MODULE Spec2Model ----
(***************************************************************************)
(* A model of the epd crate (embedded-drivers/epd): the packed frame       *)
(* planes of src/display.rs, the display sessions of src/lib.rs and the    *)
(* controller drivers of src/drivers/ that the sessions are generic over.  *)
(***************************************************************************)
EXTENDS Integers, Naturals, Sequences, FiniteSets, TLC

VARIABLES
    size,            \* the DisplaySize of the planes: [W, H, N]
    framebuf,        \* FrameBuffer (Epd.framebuf, TriColorEpd.framebuf0)
    framebuf1,       \* FrameBuffer (TriColorEpd.framebuf1)
    panicked,        \* "none", or the panic that unwound the last operation
    last,            \* the last operation and its arguments
    prev,            \* framebuf.buf as it was before the last operation
    prev1,           \* framebuf1.buf as it was before the last operation
    draws,           \* number of pixel writes issued so far
    bpp,             \* C::BITS_PER_PIXEL of the gray plane
    gray,            \* GrayFrameBuffer (GrayScaleEpd.framebuf)
    gprev,           \* gray.buf as it was before the last operation
    session,         \* the session type: Epd, FastUpdateEpd, TriColorEpd, GrayScaleEpd
    driver,          \* the driver type parameter D of the session
    phase,           \* the controller's lifecycle phase the operations imply
    log,             \* the transport calls of the last session operation
    result,          \* what the last session operation returned
    busy,            \* what di.is_busy_on() returns now (1 = true, 0 = false)
    pc,              \* the call of busy_wait about to be made; 0 outside busy_wait
    polls,           \* calls of is_busy_on made by the current busy_wait
    waveform,        \* the waveform the controller holds: the table it was sent
                     \* last, "default" from power-on or reset on
    pins             \* the levels of the output pins of the EPDInterface: [cs, dc]

\* the binary planes, the gray plane
binVars == <<framebuf, framebuf1, prev, prev1>>
grayVars == <<bpp, gray, gprev>>
sessVars == <<session, driver, phase, log, result, waveform>>
waitVars == <<busy, pc, polls>>

vars == <<size, panicked, last, draws, binVars, grayVars, sessVars, waitVars, pins>>

-----------------------------------------------------------------------------
(* Bounds of the model *)

\* pixel writes explored per behaviour
MaxDraws == 1

\* calls of is_busy_on counted within one busy_wait (the count saturates; the
\* loop itself is not bounded)
MaxPolls == 2

-----------------------------------------------------------------------------
(* usize / u8 arithmetic *)

\* A usize value u is held as the integer congruent to u modulo usize::MAX + 1
\* that is nearest to zero: a wrapped difference such as 0 - 1 is held as -1.
\* Sums and differences of such integers are exact modulo usize::MAX + 1.

\* a < b on usize
ULess(a, b) ==
    IF (a < 0) = (b < 0) THEN a < b ELSE b < 0

\* a > b on usize
UGreater(a, b) == ULess(b, a)

\* a - b - 1 on usize with wrapping subtraction (a build without overflow checks)
WrappingSub1(a, b) == a - b - 1

\* whether a - b - 1 on usize overflows in one of its two subtractions
Sub1Overflows(a, b) == ULess(a, b) \/ ULess(a - b, 1)

Max(a, b) == IF a >= b THEN a ELSE b

\* bit k (0 = least significant) of a byte
BitOf(byte, k) == (byte \div (2 ^ k)) % 2

\* byte ^= 1 << k
ByteSetBit_xor(byte, k) == IF BitOf(byte, k) = 1 THEN byte - 2 ^ k ELSE byte + 2 ^ k

\* byte |= 1 << k
ByteSetBit(byte, k) == IF BitOf(byte, k) = 1 THEN byte ELSE byte + 2 ^ k

\* byte &= !(1 << k)
ByteClearBit(byte, k) == IF BitOf(byte, k) = 1 THEN byte - 2 ^ k ELSE byte

\* !byte
ByteNot(byte) == 255 - byte

-----------------------------------------------------------------------------
(* src/display.rs: DisplaySize *)

\* N = (WIDTH / 8) * HEIGHT, as DisplaySize128x296, 200x300, 400x300
SizeExact(w, h) == [W |-> w, H |-> h, N |-> (w \div 8) * h]

\* N = (WIDTH / 8 + 1) * HEIGHT, as DisplaySize212x104, 104x201, 250x122
SizePadded(w, h) == [W |-> w, H |-> h, N |-> ((w \div 8) + 1) * h]

\* DisplaySize128x296 (2in9)
DisplaySize128x296 == SizeExact(128, 296)

\* DisplaySize200x300 (SSD1608/IL3820 in cascade mode)
DisplaySize200x300 == SizeExact(200, 300)

\* DisplaySize212x104 (2in13, three colours): WIDTH = 104, HEIGHT = 212
DisplaySize212x104 == SizePadded(104, 212)

\* DisplaySize104x201: WIDTH = 212, HEIGHT = 104
DisplaySize104x201 == SizePadded(212, 104)

\* DisplaySize250x122 (2in13, black and white): WIDTH = 122, HEIGHT = 250
DisplaySize250x122 == SizePadded(122, 250)

\* DisplaySize400x300 (4in2)
DisplaySize400x300 == SizeExact(400, 300)

\* the impls of DisplaySize
DeclaredSizes == {DisplaySize128x296, DisplaySize200x300, DisplaySize212x104,
                  DisplaySize104x201, DisplaySize250x122, DisplaySize400x300}

\* the small geometries explored: byte-aligned rows and rows with padding bits
Sizes == { SizeExact(8, 2), SizePadded(3, 2) }

Rotations == {"Rotate0", "Rotate90", "Rotate180", "Rotate270"}
Mirrorings == {"None", "Horizontal", "Vertical", "Origin"}

\* let width_in_byte = SIZE::WIDTH / 8 + (SIZE::WIDTH % 8 != 0) as usize
WidthInByte(sz) == (sz.W \div 8) + (IF sz.W % 8 # 0 THEN 1 ELSE 0)

-----------------------------------------------------------------------------
(* src/display.rs: FrameBuffer *)

FilledBuf(sz, byte) == [i \in 0 .. sz.N - 1 |-> byte]

FrameBuffer_new(sz) ==
    [buf |-> FilledBuf(sz, 0), rotation |-> "Rotate0",
     mirroring |-> "None", inverted |-> FALSE]

\* a new_inverted that sets the flag and leaves the zeroed buffer as it is
FrameBuffer_new_inverted_unfilled(sz) ==
    [buf |-> FilledBuf(sz, 0), rotation |-> "Rotate0",
     mirroring |-> "None", inverted |-> TRUE]

FrameBuffer_new_inverted(sz) ==
    [buf |-> FilledBuf(sz, 255), rotation |-> "Rotate0",
     mirroring |-> "None", inverted |-> TRUE]

\* color: TRUE = BinaryColor::On
FrameBuffer_fill(fb, sz, color) ==
    LET color_raw == IF color = fb.inverted THEN 255 ELSE 0
    IN  [fb EXCEPT !.buf = FilledBuf(sz, color_raw)]

RotationOf(r) ==
    CASE r = 0 -> "Rotate0"
      [] r = 90 -> "Rotate90"
      [] r = 180 -> "Rotate180"
      [] r = 270 -> "Rotate270"
      [] OTHER -> "Rotate0"

\* a set_rotation that keeps the current rotation for an unsupported angle
FrameBuffer_set_rotation_keeps_current(fb, r) ==
    IF r \in {0, 90, 180, 270} THEN [fb EXCEPT !.rotation = RotationOf(r)] ELSE fb

FrameBuffer_set_rotation(fb, r) == [fb EXCEPT !.rotation = RotationOf(r)]

FrameBuffer_set_mirroring(fb, m) == [fb EXCEPT !.mirroring = m]

FrameBuffer_set_inverted(fb, v) ==
    [fb EXCEPT !.inverted = v,
               !.buf = [i \in DOMAIN fb.buf |-> ByteNot(fb.buf[i])]]

\* the (width, height) set_pixel and bounding_box use under a rotation
RotatedDims(sz, rotation) ==
    IF rotation \in {"Rotate0", "Rotate180"} THEN <<sz.W, sz.H>> ELSE <<sz.H, sz.W>>

\* the range check at the head of FrameBuffer::set_pixel (the write is dropped)
FrameBuffer_overflow(sz, rotation, x, y) ==
    LET d == RotatedDims(sz, rotation)
    IN  UGreater(x, d[1]) \/ UGreater(y, d[2])

\* a rotation match whose arms for 90 and 270 are exchanged
Rotate_quarter_turns_exchanged(sz, rotation, x, y) ==
    CASE rotation = "Rotate0" -> <<x, y>>
      [] rotation = "Rotate90" -> <<y, WrappingSub1(sz.H, x)>>
      [] rotation = "Rotate180" -> <<WrappingSub1(sz.W, x), WrappingSub1(sz.H, y)>>
      [] rotation = "Rotate270" -> <<WrappingSub1(sz.W, y), x>>

\* the rotation match of set_pixel: logical (x, y) to plane coordinates
Rotate(sz, rotation, x, y) ==
    CASE rotation = "Rotate0" -> <<x, y>>
      [] rotation = "Rotate90" -> <<WrappingSub1(sz.W, y), x>>
      [] rotation = "Rotate180" -> <<WrappingSub1(sz.W, x), WrappingSub1(sz.H, y)>>
      [] rotation = "Rotate270" -> <<y, WrappingSub1(sz.H, x)>>

\* whether a subtraction of the rotation match overflows
RotateOverflows(sz, rotation, x, y) ==
    CASE rotation = "Rotate0" -> FALSE
      [] rotation = "Rotate90" -> Sub1Overflows(sz.W, y)
      [] rotation = "Rotate180" -> Sub1Overflows(sz.W, x) \/ Sub1Overflows(sz.H, y)
      [] rotation = "Rotate270" -> Sub1Overflows(sz.H, x)

\* the mirroring match of set_pixel, applied to the rotated coordinates
Mirror(sz, mirroring, p) ==
    CASE mirroring = "Horizontal" -> <<WrappingSub1(sz.W, p[1]), p[2]>>
      [] mirroring = "Vertical" -> <<p[1], WrappingSub1(sz.H, p[2])>>
      [] mirroring = "Origin" -> <<WrappingSub1(sz.W, p[1]), WrappingSub1(sz.H, p[2])>>
      [] OTHER -> p

\* whether a subtraction of the mirroring match overflows
MirrorOverflows(sz, mirroring, p) ==
    CASE mirroring = "Horizontal" -> Sub1Overflows(sz.W, p[1])
      [] mirroring = "Vertical" -> Sub1Overflows(sz.H, p[2])
      [] mirroring = "Origin" -> Sub1Overflows(sz.W, p[1]) \/ Sub1Overflows(sz.H, p[2])
      [] OTHER -> FALSE

\* rotation then mirroring
Physical(sz, rotation, mirroring, x, y) == Mirror(sz, mirroring, Rotate(sz, rotation, x, y))

\* the second range check of set_pixel, on the plane coordinates
FrameBuffer_overflow2(sz, p) == UGreater(p[1], sz.W) \/ UGreater(p[2], sz.H)

\* a row stride that forgets the partly used last byte of a row
ByteOffset_NoPadding(sz, p) == p[2] * (sz.W \div 8) + (p[1] \div 8)

\* let byte_offset = y * width_in_byte + x / 8
ByteOffset(sz, p) == p[2] * WidthInByte(sz) + (p[1] \div 8)

\* 0x80 >> (x % 8), as the index of the bit it selects
BitIndex(p) == 7 - (p[1] % 8)

\* FrameBuffer::set_pixel: the plane after the write and the panic, if any.
\* overflow_checks is the build profile: TRUE when arithmetic overflow panics
\* (a debug build), FALSE when it wraps (a release build).
FrameBuffer_set_pixel(fb, sz, x, y, pixel, overflow_checks) ==
    IF FrameBuffer_overflow(sz, fb.rotation, x, y) THEN [fb |-> fb, panic |-> "none"]
    ELSE LET p == Physical(sz, fb.rotation, fb.mirroring, x, y)
         IN  IF /\ overflow_checks
                    /\ \/ RotateOverflows(sz, fb.rotation, x, y)
                       \/ MirrorOverflows(sz, fb.mirroring, Rotate(sz, fb.rotation, x, y))
                 THEN [fb |-> fb, panic |-> "subtract_overflow"]
             ELSE IF FrameBuffer_overflow2(sz, p) THEN [fb |-> fb, panic |-> "none"]
             ELSE IF ByteOffset(sz, p) >= sz.N
                 THEN [fb |-> fb, panic |-> "index_out_of_bounds"]
             ELSE LET o == ByteOffset(sz, p)
                      b == IF pixel # fb.inverted
                               THEN ByteClearBit(fb.buf[o], BitIndex(p))
                               ELSE ByteSetBit(fb.buf[o], BitIndex(p))
                  IN  [fb |-> [fb EXCEPT !.buf[o] = b], panic |-> "none"]

\* FrameBuffer::draw_iter on one Pixel(Point(x, y), color), x and y being i32:
\* a point with a negative coordinate fails the (u32, u32) conversion and is skipped
FrameBuffer_draw_iter(fb, sz, x, y, color, overflow_checks) ==
    IF x < 0 \/ y < 0 THEN [fb |-> fb, panic |-> "none"]
    ELSE FrameBuffer_set_pixel(fb, sz, x, y, color, overflow_checks)

\* Rectangle::new(top_left, size)
Rectangle(top_left, sz) == [top_left |-> top_left, size |-> sz]

\* a bounding_box that reports the controller's own orientation, whatever the
\* rotation
FrameBuffer_bounding_box_unrotated(fb, sz) == Rectangle(<<0, 0>>, <<sz.W, sz.H>>)

\* Dimensions::bounding_box for FrameBuffer
FrameBuffer_bounding_box(fb, sz) ==
    IF fb.rotation \in {"Rotate0", "Rotate180"}
    THEN Rectangle(<<0, 0>>, <<sz.W, sz.H>>)
    ELSE Rectangle(<<0, 0>>, <<sz.H, sz.W>>)

-----------------------------------------------------------------------------
(* src/color.rs: GrayColorInBits *)

\* the depths with a GrayColorInBits impl: Gray2, Gray3, Gray4, Gray8
Depths == {2, 3, 4, 8}

\* a largest level that is one past the levels of the depth
MAX_VALUE_one_past(b) == 2 ^ b

\* const MAX_VALUE: u8 = (1 << Self::BITS_PER_PIXEL) - 1.  It is evaluated
\* only for the depths a GrayScaleDriver exists for (2, 3 and 4), where the
\* u8 shift does not overflow.
MAX_VALUE(b) == (2 ^ b) - 1

\* 1 << Self::BITS_PER_PIXEL with a u8 left operand: the shift overflows when
\* the amount is not below the 8 bits of the type.  In the initialiser of a
\* const the overflow makes the evaluation of the constant fail, whatever the
\* build profile.
ShlOverflows(b) == b >= 8

\* C::MAX_VALUE + 1 in u8, the bound of the pass loop of display_frame: the
\* sum overflows when it does not fit 8 bits
PassBoundOverflows(b) == MAX_VALUE(b) + 1 > 255

\* GrayColorInBits::from_u8: Gray3 clamps; Gray2, Gray4 and Gray8 go through
\* embedded-graphics' GrayN::new, which keeps the low BITS_PER_PIXEL bits
from_u8(b, value) ==
    IF b = 3 THEN (IF value > 7 THEN 7 ELSE value)
    ELSE value % (2 ^ b)

\* GrayColor::WHITE
WHITE(b) == (2 ^ b) - 1

-----------------------------------------------------------------------------
(* src/display.rs: GrayFrameBuffer *)

\* buf: [u8; SIZE::N * C::BITS_PER_PIXEL], filled with 0xff
GrayFrameBuffer_new(sz, b) ==
    [buf |-> [i \in 0 .. sz.N * b - 1 |-> 255], rotation |-> "Rotate0",
     mirroring |-> "None"]

\* color: TRUE = BinaryColor::On
GrayFrameBuffer_fill(g, color) ==
    [g EXCEPT !.buf = [i \in DOMAIN g.buf |-> IF color THEN 255 ELSE 0]]

GrayFrameBuffer_set_rotation(g, r) == [g EXCEPT !.rotation = RotationOf(r)]

GrayFrameBuffer_set_mirroring(g, m) == [g EXCEPT !.mirroring = m]

\* a row stride without the byte that holds the last bits of a row
GrayWidthInByte_truncated(sz, b) == (sz.W * b) \div 8

\* let width_in_bits = SIZE::WIDTH * C::BITS_PER_PIXEL;
\* let width_in_byte = width_in_bits / 8 + (width_in_bits % 8 != 0) as usize
GrayWidthInByte(sz, b) == ((sz.W * b) \div 8) + (IF (sz.W * b) % 8 # 0 THEN 1 ELSE 0)

\* an addressing that numbers the bits of a byte from the least significant
GrayBitAddr_lsb_first(sz, b, p, i) ==
    LET bit_offset == p[1] * b + i
    IN  <<GrayWidthInByte(sz, b) * p[2] + (bit_offset \div 8), bit_offset % 8>>

\* bit i of the pixel at plane coordinates p: <<byte_offset, bit_offset>>
GrayBitAddr(sz, b, p, i) ==
    LET bit_offset == p[1] * b + i
    IN  <<GrayWidthInByte(sz, b) * p[2] + (bit_offset \div 8), 7 - (bit_offset % 8)>>

\* a read that takes bit i of the stored field as the most significant first
GrayFrameBuffer_get_pixel_msb_first(g, sz, b, x, y) ==
    IF ~ULess(x, sz.W) \/ ~ULess(y, sz.H) THEN WHITE(b)
    ELSE LET RECURSIVE Luma(_)
             Luma(i) ==
                 IF i = b THEN 0
                 ELSE LET a == GrayBitAddr(sz, b, <<x, y>>, i)
                      IN  BitOf(g.buf[a[1]], a[2]) * (2 ^ (b - 1 - i)) + Luma(i + 1)
         IN  from_u8(b, Luma(0))

\* GrayFrameBuffer::get_pixel_in_raw_pos: the luma read at raw (x, y)
GrayFrameBuffer_get_pixel_in_raw_pos(g, sz, b, x, y) ==
    IF ~ULess(x, sz.W) \/ ~ULess(y, sz.H) THEN WHITE(b)
    ELSE LET RECURSIVE Luma(_)
             Luma(i) ==
                 IF i = b THEN 0
                 ELSE LET a == GrayBitAddr(sz, b, <<x, y>>, i)
                      IN  BitOf(g.buf[a[1]], a[2]) * (2 ^ i) + Luma(i + 1)
         IN  from_u8(b, Luma(0))

\* a range check that lets x = width and y = height through
GrayFrameBuffer_overflow_inclusive(sz, rotation, x, y) ==
    LET d == RotatedDims(sz, rotation)
    IN  UGreater(x, d[1]) \/ UGreater(y, d[2])

\* the range check at the head of GrayFrameBuffer::set_pixel
GrayFrameBuffer_overflow(sz, rotation, x, y) ==
    LET d == RotatedDims(sz, rotation)
    IN  ~ULess(x, d[1]) \/ ~ULess(y, d[2])

\* the for loop of GrayFrameBuffer::set_pixel from bit i on: the buffer after
\* it, or <<>> when an index is out of bounds
RECURSIVE GrayWriteBits(_, _, _, _, _, _)
GrayWriteBits(buf, sz, b, p, luma, i) ==
    IF i = b THEN buf
    ELSE LET a == GrayBitAddr(sz, b, p, i)
         IN  IF a[1] \notin DOMAIN buf THEN <<>>
             ELSE GrayWriteBits(
                      [buf EXCEPT ![a[1]] = IF BitOf(luma, i) = 1
                                                THEN ByteSetBit(@, a[2])
                                                ELSE ByteClearBit(@, a[2])],
                      sz, b, p, luma, i + 1)

\* GrayFrameBuffer::set_pixel with a pixel of the given luma
GrayFrameBuffer_set_pixel(g, sz, b, x, y, luma, overflow_checks) ==
    IF GrayFrameBuffer_overflow(sz, g.rotation, x, y) THEN [fb |-> g, panic |-> "none"]
    ELSE LET p == Physical(sz, g.rotation, g.mirroring, x, y)
         IN  IF /\ overflow_checks
                    /\ \/ RotateOverflows(sz, g.rotation, x, y)
                       \/ MirrorOverflows(sz, g.mirroring, Rotate(sz, g.rotation, x, y))
                 THEN [fb |-> g, panic |-> "subtract_overflow"]
             ELSE LET nb == GrayWriteBits(g.buf, sz, b, p, luma, 0)
                  IN  IF nb = <<>> THEN [fb |-> g, panic |-> "index_out_of_bounds"]
                      ELSE [fb |-> [g EXCEPT !.buf = nb], panic |-> "none"]

\* GrayFrameBuffer::bounding_box
GrayFrameBuffer_bounding_box(g, sz) ==
    IF g.rotation \in {"Rotate0", "Rotate180"}
    THEN Rectangle(<<0, 0>>, <<sz.W, sz.H>>)
    ELSE Rectangle(<<0, 0>>, <<sz.H, sz.W>>)

-----------------------------------------------------------------------------
(* src/interface.rs: DisplayInterface.  A driver function is the sequence of
   transport calls it makes when every call succeeds; each call is an event
     k    : "command", "data", "data_iter" (the fallible calls), "is_busy_on"
            (a polling loop), "reset", "call" (a driver function is entered),
            or "return" (it is left early with an error of its own)
     c    : the command byte; for "is_busy_on" the value that ends the loop
     d    : the payload bytes written out in the source; for "call" the arguments
     n    : the number of bytes the call carries
     name : the constant table or iterator passed as payload; for "call" the
            driver function; for "return" the error
     h    : how the caller takes an Err of this call: "?" or "unwrap"
     ok   : FALSE when the call returned Err *)

Ev(k, c, d, n, name) ==
    [k |-> k, c |-> c, d |-> d, n |-> n, name |-> name, h |-> "?", ok |-> TRUE]

send_command(command) == <<Ev("command", command, <<>>, 1, "")>>

send_data(data) == <<Ev("data", -1, data, Len(data), "")>>

\* send_data with a constant table of n bytes (a waveform LUT)
send_data_table(name, n) == <<Ev("data", -1, <<>>, n, name)>>

\* self.send_command(command)?; self.send_data(data)?; Ok(())
send_command_data(command, data) == send_command(command) \o send_data(data)

\* send_command_data with a constant table; WaveformDriver::update_waveform of
\* the SSD16xx chips and IL3895 is send_command_table(0x32, lut)
send_command_table(command, name, n) == send_command(command) \o send_data_table(name, n)

\* the n of send_data_from_iter: let mut n = 0; for &d in iter { n += 1; .. }
RECURSIVE send_data_from_iter_n(_)
send_data_from_iter_n(bytes) ==
    IF bytes = <<>> THEN 0 ELSE 1 + send_data_from_iter_n(Tail(bytes))

\* a send_data_from_iter that starts its count at one
send_data_from_iter_counting_from_one(bytes) ==
    <<Ev("data_iter", -1, bytes, send_data_from_iter_n(bytes) + 1, "")>>

\* send_data_from_iter(iter): d is what the loop writes to the bus, one byte
\* per spi.write, and n the count it returns in Ok(n)
send_data_from_iter(bytes) ==
    <<Ev("data_iter", -1, bytes, send_data_from_iter_n(bytes), "")>>

\* send_data_from_iter(iter::repeat(&0).take(n))
send_zeros_from_iter(n) == <<Ev("data_iter", -1, <<>>, n, "iter::repeat(&0)")>>

reset == <<Ev("reset", -1, <<>>, 0, "")>>

\* a loop on di.is_busy_on() that is left when it returns v (1 = true, 0 = false)
poll_is_busy_on(v) == <<Ev("is_busy_on", v, <<>>, 0, "")>>

\* entry of driver function fn with the arguments args
Call(fn, args) == <<Ev("call", -1, args, 0, fn)>>

\* return Err(e): the driver function ends here with the error e
return_Err(e) == <<Ev("return", -1, <<>>, 0, e)>>

\* .unwrap() on the result of the calls
Unwrap(calls) == [i \in DOMAIN calls |-> [calls[i] EXCEPT !.h = "unwrap"]]

\* the calls that return a Result
Fallible(e) == e.k \in {"command", "data", "data_iter"}

\* as u8
AsU8(v) == v % 256

\* FrameBuffer::as_bytes, GrayFrameBuffer::as_bytes: the bytes in order
as_bytes(buf) == [i \in 1 .. Cardinality(DOMAIN buf) |-> buf[i - 1]]

-----------------------------------------------------------------------------
(* src/interface.rs: EPDInterface over its SPI bus and output pins.  A
   function is the calls it makes on the bus and the pins, p being the pin
   levels it starts from and f the calls that return Err during it:
   f.cs_low (cs.set_low), f.dc (dc.set_low / dc.set_high), f.spi (the
   spi.write of that ordinal, 0 for none) and f.cs_high (cs.set_high).  A pin
   call that returns Err leaves the level of the pin as it was. *)

\* one call on the bus or on a pin, d the bytes of a spi.write
Hal(k, d, ok) == [Ev(k, -1, d, Len(d), "") EXCEPT !.ok = ok]

\* self.cs.set_low().map_err(|_| CSError)?; then
\* self.dc.set_low() or set_high() .map_err(|_| DCError)?
EPDInterface_select(p, level, f) ==
    IF f.cs_low
    THEN [log |-> <<Hal("cs.set_low", <<>>, FALSE)>>, result |-> "CSError", pins |-> p]
    ELSE IF f.dc
    THEN [log |-> <<Hal("cs.set_low", <<>>, TRUE),
                    Hal(IF level = "low" THEN "dc.set_low" ELSE "dc.set_high", <<>>, FALSE)>>,
          result |-> "DCError",
          pins |-> [p EXCEPT !.cs = "low"]]
    ELSE [log |-> <<Hal("cs.set_low", <<>>, TRUE),
                    Hal(IF level = "low" THEN "dc.set_low" ELSE "dc.set_high", <<>>, TRUE)>>,
          result |-> "Ok",
          pins |-> [cs |-> "low", dc |-> level]]

\* self.cs.set_high().ok(): the Result is discarded
EPDInterface_deselect(p, f) ==
    [log |-> <<Hal("cs.set_high", <<>>, ~f.cs_high)>>,
     pins |-> IF f.cs_high THEN p ELSE [p EXCEPT !.cs = "high"]]

\* the one spi.write(words) of send_command and of send_data, then the
\* release of chip select, then ret
EPDInterface_write(s, words, f) ==
    IF s.result # "Ok" THEN s
    ELSE LET e == EPDInterface_deselect(s.pins, f)
         IN  [log |-> s.log \o <<Hal("spi.write", words, f.spi = 0)>> \o e.log,
              result |-> IF f.spi = 0 THEN "Ok" ELSE "BusWriteError",
              pins |-> e.pins]

EPDInterface_send_command(p, command, f) ==
    EPDInterface_write(EPDInterface_select(p, "low", f), <<command>>, f)

EPDInterface_send_data(p, data, f) ==
    EPDInterface_write(EPDInterface_select(p, "high", f), data, f)

\* for &d in iter { n += 1; spi.write(&[d]) .. }: one write per byte, up to
\* the write that fails; chip select is released on both ways out
EPDInterface_send_data_from_iter(p, bytes, f) ==
    LET s == EPDInterface_select(p, "high", f)
        k == IF f.spi \in 1 .. Len(bytes) THEN f.spi ELSE 0
        writes == [j \in 1 .. (IF k = 0 THEN Len(bytes) ELSE k) |->
                       Hal("spi.write", <<bytes[j]>>, j # k)]
        e == EPDInterface_deselect(s.pins, f)
    IN  IF s.result # "Ok" THEN s
        ELSE [log |-> s.log \o writes \o e.log,
              result |-> IF k = 0 THEN "Ok" ELSE "BusWriteError",
              pins |-> e.pins]

\* DisplayInterface::send_command_data, which EPDInterface does not override:
\* self.send_command(command)?; self.send_data(data)?; Ok(())
EPDInterface_send_command_data(p, command, data, f, g) ==
    LET c == EPDInterface_send_command(p, command, f)
        d == EPDInterface_send_data(c.pins, data, g)
    IN  IF c.result # "Ok" THEN c
        ELSE [log |-> c.log \o d.log, result |-> d.result, pins |-> d.pins]

-----------------------------------------------------------------------------
(* drivers/mod.rs: the provided methods of the driver traits *)

\* Driver::busy_wait: polls while the busy signal is high
Driver_busy_wait == poll_is_busy_on(0)

\* Driver::sleep: no-op
Driver_sleep == <<>>

-----------------------------------------------------------------------------
(* src/drivers/ssd1619a.rs *)

SSD1619A_wake_up ==
    reset \o Driver_busy_wait
    \o send_command(\h12) \o Driver_busy_wait
    \o send_command_data(\h74, <<\h54>>)
    \o send_command_data(\h7e, <<\h3b>>)
    \o send_command_data(\h2b, <<\h03, \h63>>)
    \o send_command_data(\h0c, <<\h8b, \h9c, \h96, \h0f>>)
    \o send_command_data(\h01, <<\h2b, \h01, \h00>>)
    \o send_command_data(\h11, <<\b11>>)
    \o send_command_data(\h3C, <<\h01>>)
    \o send_command_data(\h18, <<\h80>>)
    \o send_command_data(\h22, <<\hb9>>)
    \o send_command(\h20) \o Driver_busy_wait

SSD1619A_set_shape(x, y) ==
    send_command_data(\h44, <<\h00, AsU8((x - 1) \div 8)>>)
    \o send_command_data(\h45, <<\h00, \h00, AsU8((y - 1) % 256), AsU8((y - 1) \div 256)>>)
    \o send_command_data(\h4e, <<0>>)
    \o send_command_data(\h4f, <<0, 0>>)

SSD1619A_update_frame(buffer) ==
    send_command_data(\h4e, <<0>>)
    \o send_command_data(\h4f, <<0, 0>>)
    \o send_command(\h24) \o send_data_from_iter(buffer)
    \o send_command_data(\h4e, <<0>>)
    \o send_command_data(\h4f, <<0, 0>>)
    \o send_command(\h26)
    \o send_zeros_from_iter(send_data_from_iter(buffer)[1].n)

SSD1619A_turn_on_display ==
    send_command_data(\h22, <<\hf7>>) \o send_command(\h20) \o Driver_busy_wait

SSD1619A_sleep == send_command_data(\h10, <<\h01>>)

SSD1619A_update_channel_frame(channel, buffer) ==
    send_command_data(\h4e, <<0>>)
    \o send_command_data(\h4f, <<0, 0>>)
    \o (IF channel = 0 THEN send_command(\h24) \o send_data_from_iter(buffer)
        ELSE IF channel = 1 THEN send_command(\h26) \o send_data_from_iter(buffer)
        ELSE <<>>)

\* impl WaveformDriver for SSD1619A
SSD1619A_Waveform_turn_on_display ==
    send_command_data(\h22, <<\hc5>>) \o send_command(\h20) \o Driver_busy_wait

\* impl GrayScaleDriver<Gray4> for SSD1619A
SSD1619A_setup_gray_scale_waveform == send_command_table(\h32, "LUT_INCREMENTAL_DIV_16", 70)

SSD1619A_Gray_restore_normal_waveform == send_command_table(\h32, "LUT_FAST_UPDATE", 70)

\* impl FastUpdateDriver for SSD1619A
SSD1619A_setup_fast_waveform ==
    send_command_table(\h32, "LUT_FAST", 70)
    \o send_command_data(\h03, <<\h19>>)
    \o send_command_data(\h04, <<\h4b, \ha8, \h32>>)
    \o send_command_data(\h3a, <<\h1a>>)
    \o send_command_data(\h3b, <<\h0b>>)
    \o Driver_busy_wait

SSD1619A_restore_normal_waveform == send_command_table(\h32, "LUT", 70)

-----------------------------------------------------------------------------
(* src/drivers/pd.rs *)

\* a busy_wait that takes the busy line of this chip as active high
PervasiveDisplays_busy_wait_positive_logic == poll_is_busy_on(0)

\* while !di.is_busy_on() {}
PervasiveDisplays_busy_wait == poll_is_busy_on(1)

PervasiveDisplays_wake_up ==
    reset \o PervasiveDisplays_busy_wait
    \o send_command_data(\h00, <<\hbf>>)
    \o Unwrap(send_command_data(\he5, <<\h19>>))
    \o Unwrap(send_command_data(\he0, <<\h02>>))
    \o send_command_table(\h20, "LUT_VCOM", 44)
    \o send_command_table(\h21, "LUT_WW", 42)
    \o send_command_table(\h22, "LUT_BW", 42)
    \o send_command_table(\h23, "LUT_WB", 42)
    \o send_command_table(\h24, "LUT_BB", 42)
    \o send_command_table(\h25, "LUT_WW", 42)

PervasiveDisplays_set_shape(x, y) ==
    send_command_data(\h61, <<AsU8(x \div 256), AsU8(x), AsU8(y \div 256), AsU8(y)>>)

PervasiveDisplays_update_frame(buffer) ==
    send_command(\h10) \o send_data_from_iter(buffer)
    \o send_command(\h13)
    \o send_zeros_from_iter(send_data_from_iter(buffer)[1].n)

PervasiveDisplays_turn_on_display ==
    send_command_data(\h04, <<\h00>>) \o PervasiveDisplays_busy_wait
    \o send_command_data(\h12, <<\h00>>) \o PervasiveDisplays_busy_wait

PervasiveDisplays_sleep ==
    send_command_data(\h02, <<\h00>>) \o PervasiveDisplays_busy_wait

PervasiveDisplays_update_channel_frame(channel, buffer) ==
    IF channel = 0 THEN send_command(\h10) \o send_data_from_iter(buffer)
    ELSE IF channel = 1 THEN send_command(\h13) \o send_data_from_iter(buffer)
    ELSE <<>>

PervasiveDisplays_setup_fast_waveform ==
    send_command_table(\h20, "LUT_VCOM (fast)", 44)
    \o send_command_table(\h21, "LUT_WW (fast)", 42)
    \o send_command_table(\h22, "LUT_BW (fast)", 42)
    \o send_command_table(\h23, "LUT_WB (fast)", 42)
    \o send_command_table(\h24, "LUT_BB (fast)", 42)
    \o send_command_table(\h25, "LUT_WW (fast)", 42)

PervasiveDisplays_restore_normal_waveform ==
    send_command_table(\h20, "LUT_VCOM (normal)", 44)
    \o send_command_table(\h21, "LUT_WW (normal)", 42)
    \o send_command_table(\h22, "LUT_BW (normal)", 42)
    \o send_command_table(\h23, "LUT_WB (normal)", 42)
    \o send_command_table(\h24, "LUT_BB (normal)", 42)
    \o send_command_table(\h25, "LUT_WW (normal)", 42)

-----------------------------------------------------------------------------
(* src/drivers/il3895.rs *)

IL3895_wake_up ==
    reset \o Driver_busy_wait
    \o send_command_data(\h2C, <<\hA8>>)
    \o send_command_data(\h3a, <<\h1a>>)
    \o send_command_data(\h3b, <<\h08>>)
    \o send_command_data(\h3c, <<\h63>>)
    \o send_command_data(\h11, <<\b011>>)
    \o send_command_table(\h32, "LUT_FULL_UPDATE", 30)

IL3895_set_shape(x, y) ==
    send_command_data(\h01, <<AsU8((y - 1) % 256), 0>>)
    \o send_command_data(\h44, <<0, AsU8((x - 1) \div 8)>>)
    \o send_command_data(\h45, <<0, AsU8((y - 1) % 256)>>)

IL3895_update_frame(buffer) ==
    send_command_data(\h4E, <<0>>)
    \o send_command_data(\h4f, <<0>>)
    \o send_command(\h24) \o send_data_from_iter(buffer)
    \o send_command(\hff)

IL3895_turn_on_display ==
    send_command_data(\h22, <<\hc4>>) \o send_command(\h20) \o send_command(\hff)
    \o Driver_busy_wait

IL3895_sleep == send_command_data(\h10, <<\h01>>)

IL3895_setup_fast_waveform == send_command_table(\h32, "LUT_FULL_UPDATE (fast)", 30)

IL3895_restore_normal_waveform == send_command_table(\h32, "LUT_FULL_UPDATE", 30)

-----------------------------------------------------------------------------
(* src/drivers/uc8176.rs *)

\* a busy_wait that asks for the status first, as UC8179's does
UC8176_busy_wait_reading_status == send_command(\h71) \o poll_is_busy_on(1)

\* negative logic: while !di.is_busy_on() {}
UC8176_busy_wait == poll_is_busy_on(1)

UC8176_wake_up ==
    reset \o UC8176_busy_wait
    \o send_command_data(\h01, <<\h03, \h00, \h2b, \h2b, \h13>>)
    \o send_command_data(\h06, <<\h17, \h17, \h17>>)
    \o send_command(\h04) \o UC8176_busy_wait
    \o send_command_data(\h30, <<\h3c>>)
    \o send_command_data(\h82, <<\h12>>)
    \o send_command_data(\h50, <<\h97>>)
    \o send_command(\h13) \o send_zeros_from_iter((400 * 300) \div 8)

UC8176_set_shape(x, y) ==
    send_command_data(\h61, <<AsU8(x \div 256), AsU8(x), AsU8(y \div 256), AsU8(y)>>)

UC8176_update_frame(buffer) == send_command(\h10) \o send_data_from_iter(buffer)

UC8176_turn_on_display ==
    send_command_data(\h04, <<\h00>>) \o UC8176_busy_wait
    \o send_command_data(\h12, <<\h00>>) \o UC8176_busy_wait

UC8176_update_channel_frame(channel, buffer) ==
    IF channel = 0 THEN send_command(\h10) \o send_data_from_iter(buffer)
    ELSE IF channel = 1 THEN send_command(\h13) \o send_data_from_iter(buffer)
    ELSE return_Err("InvalidChannel")

-----------------------------------------------------------------------------
(* src/drivers/uc8179.rs *)

\* di.send_command(0x71)?; while !di.is_busy_on() {}
UC8179_busy_wait == send_command(\h71) \o poll_is_busy_on(1)

UC8179_wake_up ==
    reset \o UC8179_busy_wait
    \o send_command_data(\h01, <<\h07, \h07, \h3f, \h3f>>)
    \o send_command(\h04) \o UC8179_busy_wait
    \o send_command_data(\h00, <<\h0F>>)
    \o send_command_data(\h15, <<\h00>>)
    \o send_command_data(\h50, <<\h11, \h07>>)
    \o send_command_data(\h60, <<\h22>>)

UC8179_set_shape(x, y) ==
    send_command_data(\h61, <<AsU8(x \div 256), AsU8(x), AsU8(y \div 256), AsU8(y)>>)

UC8179_update_frame(buffer) == send_command(\h10) \o send_data_from_iter(buffer)

\* power on, busy_wait, (display refresh 0x12 is commented out), busy_wait
UC8179_turn_on_display ==
    send_command(\h04) \o UC8179_busy_wait \o UC8179_busy_wait

UC8179_update_channel_frame(channel, buffer) ==
    IF channel = 0 THEN send_command(\h10) \o send_data_from_iter(buffer)
    ELSE IF channel = 1 THEN send_command(\h13) \o send_data_from_iter(buffer)
    ELSE return_Err("InvalidChannel")

-----------------------------------------------------------------------------
(* src/drivers/ssd1608.rs *)

SSD1608_wake_up ==
    reset \o Driver_busy_wait
    \o send_command(\h12) \o Driver_busy_wait
    \o send_command_data(\h0c, <<\hd7, \hd6, \h9d>>)
    \o send_command_data(\h2c, <<\h7c>>)
    \o send_command_data(\h3a, <<\h1a>>)
    \o send_command_data(\h3b, <<\h08>>)
    \o send_command_data(\h3c, <<\b11100000>>)
    \o send_command_data(\h11, <<\h03>>)
    \o send_command_table(\h32, "EPD_2_IN13_LUT_PARTIAL_UPDATE", 30)

SSD1608_set_shape(x, y) ==
    send_command_data(\h01, <<AsU8((y - 1) % 256), AsU8((y - 1) \div 256), 0>>)
    \o send_command_data(\h44, <<0, AsU8((x - 1) \div 8)>>)
    \o send_command_data(\h45, <<0, 0, AsU8((y - 1) % 256), AsU8((y - 1) \div 256)>>)

SSD1608_update_frame(buffer) ==
    send_command_data(\h4E, <<0>>)
    \o send_command_data(\h4f, <<0, 0>>)
    \o send_command(\h24) \o send_data_from_iter(buffer)
    \o send_command(\hff)

SSD1608_turn_on_display ==
    send_command_data(\h22, <<\hc4>>) \o send_command(\h20) \o send_command(\hff)
    \o Driver_busy_wait

SSD1608_sleep == send_command_data(\h10, <<\h01>>)

\* impl Driver for SSD1608Fast
SSD1608Fast_wake_up == SSD1608_wake_up \o send_command_table(\h32, "LUT_FAST_UPDATE", 30)

\* impl GrayScaleDriver<Gray2>, <Gray3>, <Gray4> for SSD1608, by depth
SSD1608_setup_gray_scale_waveform(b) ==
    CASE b = 2 -> send_command_table(\h32, "LUT_INCREMENTAL_DIV_2", 30)
      [] b = 3 -> send_command_data(\h04, <<\b0000>>)
                  \o send_command_table(\h32, "LUT_INCREMENTAL_DIV_16", 30)
      [] b = 4 -> send_command_data(\h2c, <<\hb8>>)
                  \o send_command_data(\h04, <<\b0000>>)
                  \o send_command_data(\h3b, <<\b0000>>)
                  \o send_command_table(\h32, "LUT_INCREMENTAL_DIV_16", 30)

SSD1608_restore_normal_waveform == send_command_table(\h32, "LUT_FULL_UPDATE", 30)

-----------------------------------------------------------------------------
(* src/drivers/ssd1680.rs *)

SSD1680_wake_up ==
    reset \o Driver_busy_wait
    \o send_command(\h12) \o Driver_busy_wait
    \o send_command_data(\h01, <<\h27, \h01, \h00>>)
    \o send_command_data(\h11, <<\b011>>)
    \o send_command_data(\h21, <<\h00, \h80>>)
    \o send_command_data(\h4e, <<0>>)
    \o send_command_data(\h4f, <<0, 0>>)
    \o send_command(\h26) \o send_zeros_from_iter((176 * 296) \div 8)
    \o send_command(\h7f)

SSD1680_set_shape(x, y) ==
    send_command_data(\h44, <<\h00, AsU8((x - 1) \div 8)>>)
    \o send_command_data(\h45, <<\h00, \h00, AsU8((y - 1) % 256), AsU8((y - 1) \div 256)>>)

SSD1680_update_frame(buffer) ==
    send_command_data(\h4e, <<0>>)
    \o send_command_data(\h4f, <<0, 0>>)
    \o send_command(\h24) \o send_data_from_iter(buffer)

SSD1680_turn_on_display ==
    send_command_data(\h22, <<\hf7>>) \o send_command(\h20) \o Driver_busy_wait

SSD1680_sleep == send_command_data(\h10, <<\h01>>)

SSD1680_update_channel_frame(channel, buffer) ==
    send_command_data(\h4e, <<0>>)
    \o send_command_data(\h4f, <<0, 0>>)
    \o (IF channel = 0 THEN send_command(\h24) \o send_data_from_iter(buffer)
        ELSE IF channel = 1 THEN send_command(\h26) \o send_data_from_iter(buffer)
        ELSE <<>>)

\* impl WaveformDriver for SSD1680
SSD1680_Waveform_turn_on_display ==
    send_command_data(\h22, <<\hc7>>) \o send_command(\h20) \o Driver_busy_wait

SSD1680_setup_fast_waveform == send_command_table(\h32, "LUT (fast)", 153)

SSD1680_restore_normal_waveform == send_command_table(\h32, "LUT[..153]", 153)

-----------------------------------------------------------------------------
(* src/drivers/ssd1675b.rs *)

SSD1675B_wake_up ==
    reset \o Driver_busy_wait
    \o send_command(\h12) \o Driver_busy_wait
    \o send_command_data(\h74, <<\h54>>)
    \o send_command_data(\h7e, <<\h3b>>)
    \o send_command_data(\h2b, <<\h03, \h63>>)
    \o send_command_data(\h0c, <<\h8b, \h9c, \h96, \h0f>>)
    \o send_command_data(\h01, <<\h2b, \h01, \h00>>)
    \o send_command_data(\h11, <<\b11>>)
    \o send_command_data(\h3C, <<\h01>>)
    \o send_command_data(\h18, <<\h80>>)
    \o send_command_data(\h22, <<\hb9>>)
    \o send_command(\h20) \o Driver_busy_wait
    \o send_command_data(\h4e, <<0>>)
    \o send_command_data(\h4f, <<0, 0>>)
    \o send_command(\h26) \o send_zeros_from_iter((160 * 296) \div 8)

SSD1675B_set_shape(x, y) ==
    send_command_data(\h44, <<\h00, AsU8((x - 1) \div 8)>>)
    \o send_command_data(\h45, <<\h00, \h00, AsU8((y - 1) % 256), AsU8((y - 1) \div 256)>>)

SSD1675B_update_frame(buffer) ==
    send_command_data(\h4e, <<0>>)
    \o send_command_data(\h4f, <<0, 0>>)
    \o send_command(\h24) \o send_data_from_iter(buffer)

SSD1675B_turn_on_display ==
    send_command_data(\h22, <<\hf7>>) \o send_command(\h20) \o Driver_busy_wait

SSD1675B_update_channel_frame(channel, buffer) ==
    send_command_data(\h4e, <<0>>)
    \o send_command_data(\h4f, <<0, 0>>)
    \o (IF channel = 0 THEN send_command(\h24) \o send_data_from_iter(buffer)
        ELSE IF channel = 1 THEN send_command(\h26) \o send_data_from_iter(buffer)
        ELSE <<>>)

\* impl WaveformDriver for SSD1675B
SSD1675B_Waveform_turn_on_display ==
    send_command_data(\h22, <<\hc5>>) \o send_command(\h20) \o Driver_busy_wait

SSD1675B_setup_fast_waveform == send_command_table(\h32, "LUT (fast)", 105)

SSD1675B_restore_normal_waveform == send_command_table(\h32, "LUT", 105)

-----------------------------------------------------------------------------
(* The driver type parameter D of a session, and the trait impls it selects *)

Drivers == {"SSD1619A", "PervasiveDisplays", "IL3895", "UC8176", "UC8179",
            "SSD1608", "SSD1608Fast", "SSD1680", "SSD1675B"}

\* impl FastUpdateDriver for ..
FastUpdateDrivers == {"SSD1619A", "PervasiveDisplays", "IL3895", "SSD1680", "SSD1675B"}

\* impl MultiColorDriver for ..
MultiColorDrivers == {"SSD1619A", "PervasiveDisplays", "UC8176", "UC8179", "SSD1680",
                      "SSD1675B"}

\* impl GrayScaleDriver<C> for ..: <<D, C::BITS_PER_PIXEL>>
GrayScaleDrivers == {<<"SSD1619A", 4>>, <<"SSD1608", 2>>, <<"SSD1608", 3>>, <<"SSD1608", 4>>}

wake_up(D) ==
    CASE D = "SSD1619A" -> SSD1619A_wake_up
      [] D = "PervasiveDisplays" -> PervasiveDisplays_wake_up
      [] D = "IL3895" -> IL3895_wake_up
      [] D = "UC8176" -> UC8176_wake_up
      [] D = "UC8179" -> UC8179_wake_up
      [] D = "SSD1608" -> SSD1608_wake_up
      [] D = "SSD1608Fast" -> SSD1608Fast_wake_up
      [] D = "SSD1680" -> SSD1680_wake_up
      [] D = "SSD1675B" -> SSD1675B_wake_up

set_shape(D, x, y) ==
    CASE D = "SSD1619A" -> SSD1619A_set_shape(x, y)
      [] D = "PervasiveDisplays" -> PervasiveDisplays_set_shape(x, y)
      [] D = "IL3895" -> IL3895_set_shape(x, y)
      [] D = "UC8176" -> UC8176_set_shape(x, y)
      [] D = "UC8179" -> UC8179_set_shape(x, y)
      [] D \in {"SSD1608", "SSD1608Fast"} -> SSD1608_set_shape(x, y)
      [] D = "SSD1680" -> SSD1680_set_shape(x, y)
      [] D = "SSD1675B" -> SSD1675B_set_shape(x, y)

update_frame(D, buffer) ==
    CASE D = "SSD1619A" -> SSD1619A_update_frame(buffer)
      [] D = "PervasiveDisplays" -> PervasiveDisplays_update_frame(buffer)
      [] D = "IL3895" -> IL3895_update_frame(buffer)
      [] D = "UC8176" -> UC8176_update_frame(buffer)
      [] D = "UC8179" -> UC8179_update_frame(buffer)
      [] D \in {"SSD1608", "SSD1608Fast"} -> SSD1608_update_frame(buffer)
      [] D = "SSD1680" -> SSD1680_update_frame(buffer)
      [] D = "SSD1675B" -> SSD1675B_update_frame(buffer)

\* <D as Driver>::turn_on_display
turn_on_display(D) ==
    CASE D = "SSD1619A" -> SSD1619A_turn_on_display
      [] D = "PervasiveDisplays" -> PervasiveDisplays_turn_on_display
      [] D = "IL3895" -> IL3895_turn_on_display
      [] D = "UC8176" -> UC8176_turn_on_display
      [] D = "UC8179" -> UC8179_turn_on_display
      [] D \in {"SSD1608", "SSD1608Fast"} -> SSD1608_turn_on_display
      [] D = "SSD1680" -> SSD1680_turn_on_display
      [] D = "SSD1675B" -> SSD1675B_turn_on_display

\* D::sleep: the provided no-op where the impl has none
sleep(D) ==
    CASE D = "SSD1619A" -> SSD1619A_sleep
      [] D = "PervasiveDisplays" -> PervasiveDisplays_sleep
      [] D = "IL3895" -> IL3895_sleep
      [] D = "SSD1608" -> SSD1608_sleep
      [] D = "SSD1680" -> SSD1680_sleep
      [] OTHER -> Driver_sleep

\* D::update_channel_frame; the sessions pass channel 0 and 1
update_channel_frame(D, channel, buffer) ==
    CASE D = "SSD1619A" -> SSD1619A_update_channel_frame(channel, buffer)
      [] D = "PervasiveDisplays" -> PervasiveDisplays_update_channel_frame(channel, buffer)
      [] D = "UC8176" -> UC8176_update_channel_frame(channel, buffer)
      [] D = "UC8179" -> UC8179_update_channel_frame(channel, buffer)
      [] D = "SSD1680" -> SSD1680_update_channel_frame(channel, buffer)
      [] D = "SSD1675B" -> SSD1675B_update_channel_frame(channel, buffer)

\* <D as WaveformDriver>::turn_on_display: the impl's own, else the provided
\* method, which activates as <D as Driver>::turn_on_display does
WaveformDriver_turn_on_display(D) ==
    CASE D = "SSD1619A" -> SSD1619A_Waveform_turn_on_display
      [] D = "SSD1680" -> SSD1680_Waveform_turn_on_display
      [] D = "SSD1675B" -> SSD1675B_Waveform_turn_on_display
      [] OTHER -> turn_on_display(D)

setup_fast_waveform(D) ==
    CASE D = "SSD1619A" -> SSD1619A_setup_fast_waveform
      [] D = "PervasiveDisplays" -> PervasiveDisplays_setup_fast_waveform
      [] D = "IL3895" -> IL3895_setup_fast_waveform
      [] D = "SSD1680" -> SSD1680_setup_fast_waveform
      [] D = "SSD1675B" -> SSD1675B_setup_fast_waveform

\* <D as FastUpdateDriver>::restore_normal_waveform
restore_normal_waveform(D) ==
    CASE D = "SSD1619A" -> SSD1619A_restore_normal_waveform
      [] D = "PervasiveDisplays" -> PervasiveDisplays_restore_normal_waveform
      [] D = "IL3895" -> IL3895_restore_normal_waveform
      [] D = "SSD1680" -> SSD1680_restore_normal_waveform
      [] D = "SSD1675B" -> SSD1675B_restore_normal_waveform

\* <D as GrayScaleDriver<C>>::setup_gray_scale_waveform, b = C::BITS_PER_PIXEL
setup_gray_scale_waveform(D, b) ==
    CASE D = "SSD1619A" -> SSD1619A_setup_gray_scale_waveform
      [] D = "SSD1608" -> SSD1608_setup_gray_scale_waveform(b)

\* <D as GrayScaleDriver<C>>::restore_normal_waveform
GrayScaleDriver_restore_normal_waveform(D) ==
    CASE D = "SSD1619A" -> SSD1619A_Gray_restore_normal_waveform
      [] D = "SSD1608" -> SSD1608_restore_normal_waveform

-----------------------------------------------------------------------------
(* src/lib.rs: the session operations, as the calls they make when every
   call succeeds *)

\* FrameBuffer::new_ones: every byte 0xff, not inverted
FrameBuffer_new_ones(sz) ==
    [buf |-> FilledBuf(sz, 255), rotation |-> "Rotate0", mirroring |-> "None",
     inverted |-> FALSE]

\* an init that leaves the controller without its geometry
Epd_init_without_set_shape(D, sz) == Call("wake_up", <<>>) \o wake_up(D)

\* Epd::init, Epd::wake_up, TriColorEpd::init, TriColorEpd::wake_up,
\* GrayScaleEpd::init, FastUpdateEpd::wake_up
Epd_init(D, sz) ==
    Call("wake_up", <<>>) \o wake_up(D)
    \o Call("set_shape", <<sz.W, sz.H>>) \o set_shape(D, sz.W, sz.H)

FastUpdateEpd_init(D, sz) ==
    Epd_init(D, sz) \o Call("setup_fast_waveform", <<>>) \o setup_fast_waveform(D)

Epd_display_frame(D, fb) ==
    Call("update_frame", <<>>) \o update_frame(D, as_bytes(fb.buf))
    \o Call("turn_on_display", <<>>) \o turn_on_display(D)

FastUpdateEpd_display_frame(D, fb) ==
    Call("update_frame", <<>>) \o update_frame(D, as_bytes(fb.buf))
    \o Call("WaveformDriver::turn_on_display", <<>>) \o WaveformDriver_turn_on_display(D)

\* a full update that leaves the normal waveform loaded
FastUpdateEpd_display_frame_full_update_without_reload(D, fb) ==
    Call("restore_normal_waveform", <<>>) \o restore_normal_waveform(D)
    \o Call("update_frame", <<>>) \o update_frame(D, as_bytes(fb.buf))
    \o Call("WaveformDriver::turn_on_display", <<>>) \o WaveformDriver_turn_on_display(D)

FastUpdateEpd_display_frame_full_update(D, fb) ==
    Call("restore_normal_waveform", <<>>) \o restore_normal_waveform(D)
    \o Call("update_frame", <<>>) \o update_frame(D, as_bytes(fb.buf))
    \o Call("WaveformDriver::turn_on_display", <<>>) \o WaveformDriver_turn_on_display(D)
    \o Call("setup_fast_waveform", <<>>) \o setup_fast_waveform(D)

\* a flush that activates the panel between the two plane transfers
TriColorEpd_display_frame_activates_between(D, fb0, fb1) ==
    Call("update_channel_frame", <<0>>) \o update_channel_frame(D, 0, as_bytes(fb0.buf))
    \o Call("turn_on_display", <<>>) \o turn_on_display(D)
    \o Call("update_channel_frame", <<1>>) \o update_channel_frame(D, 1, as_bytes(fb1.buf))

TriColorEpd_display_frame(D, fb0, fb1) ==
    Call("update_channel_frame", <<0>>) \o update_channel_frame(D, 0, as_bytes(fb0.buf))
    \o Call("update_channel_frame", <<1>>) \o update_channel_frame(D, 1, as_bytes(fb1.buf))
    \o Call("turn_on_display", <<>>) \o turn_on_display(D)

\* Epd::sleep, FastUpdateEpd::sleep, TriColorEpd::sleep, GrayScaleEpd::sleep
Epd_sleep(D) == Call("sleep", <<>>) \o sleep(D)

\* a scratch frame in which a pixel stored at the level of the pass is dark
GrayPassFrame_inclusive(g, sz, b, i) ==
    LET width_in_byte == WidthInByte(sz)
        Dark(x, y) ==
            /\ x < sz.W /\ y < sz.H
            /\ GrayFrameBuffer_get_pixel_in_raw_pos(g, sz, b, x, y) <= i
        Byte(o) ==
            LET y == o \div width_in_byte
                x0 == (o % width_in_byte) * 8
                RECURSIVE Bits(_)
                Bits(k) == IF k = 8 THEN 0
                           ELSE (IF Dark(x0 + k, y) THEN 0 ELSE 2 ^ (7 - k)) + Bits(k + 1)
            IN  Bits(0)
    IN  [o \in 0 .. sz.N - 1 |-> Byte(o)]

\* the scratch frame tmp of GrayScaleEpd::display_frame in the pass of level i
GrayPassFrame(g, sz, b, i) ==
    LET width_in_byte == WidthInByte(sz)
        Dark(x, y) ==
            /\ x < sz.W /\ y < sz.H
            /\ GrayFrameBuffer_get_pixel_in_raw_pos(g, sz, b, x, y) < i
        Byte(o) ==
            LET y == o \div width_in_byte
                x0 == (o % width_in_byte) * 8
                RECURSIVE Bits(_)
                Bits(k) == IF k = 8 THEN 0
                           ELSE (IF Dark(x0 + k, y) THEN 0 ELSE 2 ^ (7 - k)) + Bits(k + 1)
            IN  Bits(0)
    IN  [o \in 0 .. sz.N - 1 |-> Byte(o)]

\* the passes of GrayScaleEpd::display_frame from level i down to 0
RECURSIVE GrayPasses(_, _, _, _, _)
GrayPasses(D, g, sz, b, i) ==
    IF i < 0 THEN <<>>
    ELSE Call("update_frame", <<i>>) \o update_frame(D, as_bytes(GrayPassFrame(g, sz, b, i)))
         \o Call("WaveformDriver::turn_on_display", <<>>) \o WaveformDriver_turn_on_display(D)
         \o GrayPasses(D, g, sz, b, i - 1)

\* a render whose level range leaves out the top level: (0..C::MAX_VALUE).rev()
GrayScaleEpd_display_frame_exclusive_range(D, g, sz, b) ==
    Call("setup_gray_scale_waveform", <<>>) \o setup_gray_scale_waveform(D, b)
    \o GrayPasses(D, g, sz, b, MAX_VALUE(b) - 1)

GrayScaleEpd_display_frame(D, g, sz, b) ==
    Call("setup_gray_scale_waveform", <<>>) \o setup_gray_scale_waveform(D, b)
    \o GrayPasses(D, g, sz, b, MAX_VALUE(b))

\* a clear that transfers and activates twice
GrayScaleEpd_clear_display_two_pass(D, g) ==
    Call("restore_normal_waveform", <<>>) \o GrayScaleDriver_restore_normal_waveform(D)
    \o Call("update_frame", <<>>) \o update_frame(D, as_bytes(g.buf))
    \o Call("turn_on_display", <<>>) \o turn_on_display(D)
    \o Call("update_frame", <<>>) \o update_frame(D, as_bytes(g.buf))
    \o Call("turn_on_display", <<>>) \o turn_on_display(D)

\* GrayScaleEpd::clear_display, g being the plane after self.framebuf.fill(color)
GrayScaleEpd_clear_display(D, g) ==
    Call("restore_normal_waveform", <<>>) \o GrayScaleDriver_restore_normal_waveform(D)
    \o Call("update_frame", <<>>) \o update_frame(D, as_bytes(g.buf))
    \o Call("turn_on_display", <<>>) \o turn_on_display(D)

\* TriColorEpd::set_rotation: both planes
TriColorEpd_set_rotation(fb0, fb1, r) ==
    [fb0 |-> FrameBuffer_set_rotation(fb0, r), fb1 |-> FrameBuffer_set_rotation(fb1, r)]

\* TriColorEpd::draw_iter on one Pixel(Point(x, y), color): the match on the
\* color gives the BinaryColor drawn into framebuf0, then into framebuf1; a
\* panic in the first write leaves the second undone
TriColorEpd_draw_iter(fb0, fb1, sz, x, y, color, overflow_checks) ==
    LET c0 == CASE color = "White" -> TRUE
                [] color = "Black" -> FALSE
                [] color = "Red" -> TRUE
        c1 == CASE color = "White" -> FALSE
                [] color = "Black" -> FALSE
                [] color = "Red" -> TRUE
        r0 == FrameBuffer_draw_iter(fb0, sz, x, y, c0, overflow_checks)
        r1 == FrameBuffer_draw_iter(fb1, sz, x, y, c1, overflow_checks)
    IN  IF r0.panic # "none" THEN [fb0 |-> r0.fb, fb1 |-> fb1, panic |-> r0.panic]
        ELSE [fb0 |-> r0.fb, fb1 |-> r1.fb, panic |-> r1.panic]

\* where a transport error can be injected into the calls: nowhere (0), or at
\* one of the fallible calls
FailPoints(calls) == {0} \cup {i \in DOMAIN calls : Fallible(calls[i])}

\* the calls made and the value returned when call p returns Err: `?` returns
\* the error to the caller of the operation, unwrap() panics; with every call
\* Ok the value is Ok(()), or the error of the return Err(..) the calls end in
Run(calls, p) ==
    IF p = 0
    THEN [log |-> calls,
          result |-> IF calls # <<>> /\ calls[Len(calls)].k = "return"
                     THEN calls[Len(calls)].name ELSE "Ok"]
    ELSE [log |-> SubSeq(calls, 1, p - 1) \o <<[calls[p] EXCEPT !.ok = FALSE]>>,
          result |-> IF calls[p].h = "unwrap" THEN "panic" ELSE "Err"]

\* the waveform the controller holds after the calls l, having held w: a
\* hardware reset brings back the default, a waveform table written (a write
\* that returned Ok) replaces it
WaveformAfter(w, l) ==
    LET loads == {i \in DOMAIN l :
                      /\ l[i].ok
                      /\ \/ l[i].k = "reset"
                         \/ l[i].k = "data" /\ l[i].name # ""}
    IN  IF loads = {} THEN w
        ELSE LET i == CHOOSE j \in loads : \A k \in loads : k <= j
             IN  IF l[i].k = "reset" THEN "default" ELSE l[i].name

\* the output pins between two transfers: chip select released, the
\* data/command line at command
PinsIdle == [cs |-> "high", dc |-> "low"]

\* no busy_wait is running
NoWait == busy = 0 /\ pc = 0 /\ polls = 0

-----------------------------------------------------------------------------
(* The binary plane as a state machine *)

\* coordinates offered to the pixel writes: from one below zero to one past
\* the bound of the rotated bounding box, so x = w and y = h occur
CoordsX(fb) == -1 .. RotatedDims(size, fb.rotation)[1] + 1
CoordsY(fb) == -1 .. RotatedDims(size, fb.rotation)[2] + 1

NoOp == [op |-> "new", x |-> 0, y |-> 0, color |-> FALSE, level |-> 0, tricolor |-> "White"]

InitPlane ==
    /\ size \in Sizes
    /\ framebuf \in {FrameBuffer_new(size), FrameBuffer_new_inverted(size)}
    /\ framebuf1 = FrameBuffer_new(size)
    /\ panicked = "none"
    /\ last = NoOp
    /\ prev = framebuf.buf
    /\ prev1 = framebuf1.buf
    /\ draws = 0
    /\ NoWait
    /\ pins = PinsIdle
    /\ waveform = "default"
    /\ bpp = 2
    /\ gray = GrayFrameBuffer_new(size, bpp)
    /\ gprev = gray.buf
    /\ session = "Epd"
    /\ driver = "SSD1608"
    /\ phase = "Uninitialized"
    /\ log = <<>>
    /\ result = "Ok"

Alive == panicked = "none"

SetRotation(r) ==
    /\ Alive
    /\ framebuf' = FrameBuffer_set_rotation(framebuf, r)
    /\ last' = [NoOp EXCEPT !.op = "set_rotation", !.x = r]
    /\ prev' = framebuf.buf
    /\ UNCHANGED <<pins, waitVars, size, framebuf1, panicked, prev1, draws, grayVars, sessVars>>

SetMirroring(m) ==
    /\ Alive
    /\ framebuf' = FrameBuffer_set_mirroring(framebuf, m)
    /\ last' = [NoOp EXCEPT !.op = "set_mirroring"]
    /\ prev' = framebuf.buf
    /\ UNCHANGED <<pins, waitVars, size, framebuf1, panicked, prev1, draws, grayVars, sessVars>>

SetInverted(v) ==
    /\ Alive
    /\ framebuf' = FrameBuffer_set_inverted(framebuf, v)
    /\ last' = [NoOp EXCEPT !.op = "set_inverted", !.color = v]
    /\ prev' = framebuf.buf
    /\ UNCHANGED <<pins, waitVars, size, framebuf1, panicked, prev1, draws, grayVars, sessVars>>

Fill(color) ==
    /\ Alive
    /\ framebuf' = FrameBuffer_fill(framebuf, size, color)
    /\ last' = [NoOp EXCEPT !.op = "fill", !.color = color]
    /\ prev' = framebuf.buf
    /\ UNCHANGED <<pins, waitVars, size, framebuf1, panicked, prev1, draws, grayVars, sessVars>>

DrawPixel(x, y, color, overflow_checks) ==
    /\ Alive
    /\ draws < MaxDraws
    /\ LET r == FrameBuffer_draw_iter(framebuf, size, x, y, color, overflow_checks)
       IN  /\ framebuf' = r.fb
           /\ panicked' = r.panic
    /\ last' = [NoOp EXCEPT !.op = "draw_iter", !.x = x, !.y = y, !.color = color]
    /\ prev' = framebuf.buf
    /\ draws' = draws + 1
    /\ UNCHANGED <<pins, waitVars, size, framebuf1, prev1, grayVars, sessVars>>

NextPlane ==
    \/ \E r \in {0, 90, 180, 270, 45} : SetRotation(r)
    \/ \E m \in Mirrorings : SetMirroring(m)
    \/ \E v \in BOOLEAN : SetInverted(v)
    \/ \E c \in BOOLEAN : Fill(c)
    \/ \E x \in CoordsX(framebuf), y \in CoordsY(framebuf), c \in BOOLEAN, oc \in BOOLEAN :
           DrawPixel(x, y, c, oc)

SpecPlane == InitPlane /\ [][NextPlane]_vars

-----------------------------------------------------------------------------
(* The gray plane as a state machine *)

\* the geometry of the gray plane: rows of 3 pixels, so that a row of depth 3
\* has pixels straddling a byte boundary and every depth has row padding
GraySizes == { SizePadded(3, 2) }

\* the lumas written by the actions: the darkest, the lightest and two with
\* mixed bits (01.. and 10..)
LevelInputs(b) ==
    LET max == (2 ^ b) - 1
    IN  {0, max \div 3, max - (max \div 3), max}

InitGray ==
    /\ size \in GraySizes
    /\ bpp \in Depths
    /\ gray = GrayFrameBuffer_new(size, bpp)
    /\ gprev = gray.buf
    /\ framebuf = FrameBuffer_new(size)
    /\ framebuf1 = FrameBuffer_new(size)
    /\ prev = framebuf.buf
    /\ prev1 = framebuf1.buf
    /\ panicked = "none"
    /\ last = NoOp
    /\ draws = 0
    /\ NoWait
    /\ pins = PinsIdle
    /\ waveform = "default"
    /\ session = "GrayScaleEpd"
    /\ driver = "SSD1608"
    /\ phase = "Uninitialized"
    /\ log = <<>>
    /\ result = "Ok"

GraySetRotation(r) ==
    /\ Alive
    /\ gray' = GrayFrameBuffer_set_rotation(gray, r)
    /\ gprev' = gray.buf
    /\ last' = [NoOp EXCEPT !.op = "set_rotation", !.x = r]
    /\ UNCHANGED <<pins, waitVars, size, panicked, draws, binVars, bpp, sessVars>>

GraySetMirroring(m) ==
    /\ Alive
    /\ gray' = GrayFrameBuffer_set_mirroring(gray, m)
    /\ gprev' = gray.buf
    /\ last' = [NoOp EXCEPT !.op = "set_mirroring"]
    /\ UNCHANGED <<pins, waitVars, size, panicked, draws, binVars, bpp, sessVars>>

GrayFill(color) ==
    /\ Alive
    /\ gray' = GrayFrameBuffer_fill(gray, color)
    /\ gprev' = gray.buf
    /\ last' = [NoOp EXCEPT !.op = "fill", !.color = color]
    /\ UNCHANGED <<pins, waitVars, size, panicked, draws, binVars, bpp, sessVars>>

\* GrayScaleEpd::draw_iter with one pixel: point.x as usize, point.y as usize
\* (a negative coordinate is its own representative of the cast value)
GrayDrawPixel(x, y, luma, overflow_checks) ==
    /\ Alive
    /\ draws < MaxDraws
    /\ LET r == GrayFrameBuffer_set_pixel(gray, size, bpp, x, y, luma, overflow_checks)
       IN  /\ gray' = r.fb
           /\ panicked' = r.panic
    /\ gprev' = gray.buf
    /\ last' = [NoOp EXCEPT !.op = "draw_iter", !.x = x, !.y = y, !.level = luma]
    /\ draws' = draws + 1
    /\ UNCHANGED <<pins, waitVars, size, binVars, bpp, sessVars>>

\* the u8 values handed to from_u8: the levels of the depth, and values above
\* its largest level
U8Inputs(b) ==
    LET max == (2 ^ b) - 1
    IN  {v \in {max - 1, max, max + 1, 2 * max + 1, 255} : v <= 255}

\* GrayScaleEpd::draw_iter with the one pixel Pixel(point, C::from_u8(value))
GrayDrawFromU8(x, y, value, overflow_checks) ==
    /\ Alive
    /\ draws < MaxDraws
    /\ LET r == GrayFrameBuffer_set_pixel(gray, size, bpp, x, y, from_u8(bpp, value),
                                          overflow_checks)
       IN  /\ gray' = r.fb
           /\ panicked' = r.panic
    /\ gprev' = gray.buf
    /\ last' = [NoOp EXCEPT !.op = "draw_from_u8", !.x = x, !.y = y, !.level = value]
    /\ draws' = draws + 1
    /\ UNCHANGED <<pins, waitVars, size, binVars, bpp, sessVars>>

GrayCoordsX == -1 .. RotatedDims(size, gray.rotation)[1]
GrayCoordsY == -1 .. RotatedDims(size, gray.rotation)[2]

NextGray ==
    \/ \E r \in {0, 90, 180, 270, 45} : GraySetRotation(r)
    \/ \E m \in Mirrorings : GraySetMirroring(m)
    \/ \E c \in BOOLEAN : GrayFill(c)
    \/ \E x \in GrayCoordsX, y \in GrayCoordsY, l \in LevelInputs(bpp), oc \in BOOLEAN :
           GrayDrawPixel(x, y, l, oc)
    \/ \E x \in {0, RotatedDims(size, gray.rotation)[1] - 1},
          y \in {0, RotatedDims(size, gray.rotation)[2] - 1},
          v \in U8Inputs(bpp), oc \in BOOLEAN :
           GrayDrawFromU8(x, y, v, oc)

SpecGray == InitGray /\ [][NextGray]_vars

-----------------------------------------------------------------------------
(* The sessions as a state machine: one action per session operation, which
   runs the whole operation against the transport.  A polling loop is taken
   to end: the controller eventually shows the level the loop waits for. *)

Sessions == {"Epd", "FastUpdateEpd", "TriColorEpd", "GrayScaleEpd"}

\* the geometry of the sessions
SessionSizes == { SizePadded(3, 2) }

\* the driver types session type s accepts, by its trait bound
DriversOf(s) ==
    CASE s = "Epd" -> Drivers
      [] s = "FastUpdateEpd" -> FastUpdateDrivers
      [] s = "TriColorEpd" -> MultiColorDrivers
      [] s = "GrayScaleEpd" -> {dc[1] : dc \in GrayScaleDrivers}

\* Epd::new, FastUpdateEpd::new, TriColorEpd::new, GrayScaleEpd::new
InitSession ==
    /\ size \in SessionSizes
    /\ session \in Sessions
    /\ driver \in DriversOf(session)
    /\ bpp \in IF session = "GrayScaleEpd"
                  THEN {dc[2] : dc \in {e \in GrayScaleDrivers : e[1] = driver}}
                  ELSE {2}
    /\ framebuf \in IF session = "TriColorEpd"
                       THEN {FrameBuffer_new_ones(size)}
                       ELSE {FrameBuffer_new_ones(size), FrameBuffer_new(size)}
    /\ framebuf1 = FrameBuffer_new(size)
    /\ gray = GrayFrameBuffer_new(size, bpp)
    /\ prev = framebuf.buf
    /\ prev1 = framebuf1.buf
    /\ gprev = gray.buf
    /\ panicked = "none"
    /\ last = NoOp
    /\ draws = 0
    /\ NoWait
    /\ pins = PinsIdle
    /\ waveform = "default"
    /\ phase = "Uninitialized"
    /\ log = <<>>
    /\ result = "Ok"

\* the operation named op has run to r = Run(..); to is the lifecycle phase
\* a successful return leaves the controller in
Returned(op, r, to) ==
    /\ log' = r.log
    /\ result' = r.result
    /\ panicked' = IF r.result = "panic" THEN "unwrap" ELSE "none"
    /\ last' = [NoOp EXCEPT !.op = op]
    /\ phase' = IF r.result = "Ok" THEN to ELSE phase
    /\ waveform' = WaveformAfter(waveform, r.log)

init_calls ==
    IF session = "FastUpdateEpd" THEN FastUpdateEpd_init(driver, size)
    ELSE Epd_init(driver, size)

\* a flush that is held back until the controller has been initialised
display_frame_calls_while_awake ==
    IF phase # "Awake" THEN <<>>
    ELSE CASE session = "Epd" -> Epd_display_frame(driver, framebuf)
           [] session = "FastUpdateEpd" -> FastUpdateEpd_display_frame(driver, framebuf)
           [] session = "TriColorEpd" -> TriColorEpd_display_frame(driver, framebuf, framebuf1)
           [] session = "GrayScaleEpd" -> GrayScaleEpd_display_frame(driver, gray, size, bpp)

display_frame_calls ==
    CASE session = "Epd" -> Epd_display_frame(driver, framebuf)
      [] session = "FastUpdateEpd" -> FastUpdateEpd_display_frame(driver, framebuf)
      [] session = "TriColorEpd" -> TriColorEpd_display_frame(driver, framebuf, framebuf1)
      [] session = "GrayScaleEpd" -> GrayScaleEpd_display_frame(driver, gray, size, bpp)

\* the transport errors the next operation can meet: after an operation that
\* failed, the next one meets a working transport
Faults(calls) == IF result = "Ok" THEN FailPoints(calls) ELSE {0}

SessionInit ==
    /\ Alive
    /\ LET calls == init_calls
       IN  \E p \in Faults(calls) : Returned("init", Run(calls, p), "Awake")
    /\ gprev' = gray.buf
    /\ UNCHANGED <<pins, waitVars, size, draws, binVars, bpp, gray, session, driver>>

SessionDisplayFrame ==
    /\ Alive
    /\ LET calls == display_frame_calls
       IN  \E p \in Faults(calls) : Returned("display_frame", Run(calls, p), phase)
    /\ gprev' = gray.buf
    /\ UNCHANGED <<pins, waitVars, size, draws, binVars, bpp, gray, session, driver>>

SessionDisplayFrameFullUpdate ==
    /\ Alive
    /\ session = "FastUpdateEpd"
    /\ LET calls == FastUpdateEpd_display_frame_full_update(driver, framebuf)
       IN  \E p \in Faults(calls) :
               Returned("display_frame_full_update", Run(calls, p), phase)
    /\ gprev' = gray.buf
    /\ UNCHANGED <<pins, waitVars, size, draws, binVars, bpp, gray, session, driver>>

\* GrayScaleEpd::clear_display: the plane is filled once restore_normal_waveform
\* has returned Ok
SessionClearDisplay(color) ==
    /\ Alive
    /\ session = "GrayScaleEpd"
    /\ LET filled == GrayFrameBuffer_fill(gray, color)
           calls == GrayScaleEpd_clear_display(driver, filled)
           first == Len(Call("restore_normal_waveform", <<>>)
                        \o GrayScaleDriver_restore_normal_waveform(driver))
       IN  \E p \in Faults(calls) :
               /\ gray' = IF p = 0 \/ p > first THEN filled ELSE gray
               /\ Returned("clear_display", Run(calls, p), phase)
    /\ gprev' = gray.buf
    /\ UNCHANGED <<pins, waitVars, size, draws, binVars, bpp, session, driver>>

SessionSleep ==
    /\ Alive
    /\ LET calls == Epd_sleep(driver)
       IN  \E p \in Faults(calls) : Returned("sleep", Run(calls, p), "Asleep")
    /\ gprev' = gray.buf
    /\ UNCHANGED <<pins, waitVars, size, draws, binVars, bpp, gray, session, driver>>

\* Epd::wake_up, FastUpdateEpd::wake_up, TriColorEpd::wake_up
SessionWakeUp ==
    /\ Alive
    /\ session # "GrayScaleEpd"
    /\ LET calls == Epd_init(driver, size)
       IN  \E p \in Faults(calls) : Returned("wake_up", Run(calls, p), "Awake")
    /\ gprev' = gray.buf
    /\ UNCHANGED <<pins, waitVars, size, draws, binVars, bpp, gray, session, driver>>

NextSession ==
    \/ SessionInit
    \/ SessionDisplayFrame
    \/ SessionDisplayFrameFullUpdate
    \/ \E c \in BOOLEAN : SessionClearDisplay(c)
    \/ SessionSleep
    \/ SessionWakeUp

SpecSession == InitSession /\ [][NextSession]_vars

-----------------------------------------------------------------------------
(* A GrayScaleEpd whose plane is drawn into and rendered, on a transport
   that works: the operations on the plane and display_frame *)

\* GrayScaleEpd::new
InitRender ==
    /\ size \in SessionSizes
    /\ session = "GrayScaleEpd"
    /\ driver \in DriversOf(session)
    /\ bpp \in {dc[2] : dc \in {e \in GrayScaleDrivers : e[1] = driver}}
    /\ framebuf = FrameBuffer_new(size)
    /\ framebuf1 = FrameBuffer_new(size)
    /\ gray = GrayFrameBuffer_new(size, bpp)
    /\ prev = framebuf.buf
    /\ prev1 = framebuf1.buf
    /\ gprev = gray.buf
    /\ panicked = "none"
    /\ last = NoOp
    /\ draws = 0
    /\ NoWait
    /\ pins = PinsIdle
    /\ waveform = "default"
    /\ phase = "Uninitialized"
    /\ log = <<>>
    /\ result = "Ok"

\* GrayScaleEpd::display_frame with every transport call returning Ok
RenderDisplayFrame ==
    /\ Alive
    /\ Returned("display_frame", Run(GrayScaleEpd_display_frame(driver, gray, size, bpp), 0),
                phase)
    /\ gprev' = gray.buf
    /\ UNCHANGED <<pins, waitVars, size, draws, binVars, bpp, gray, session, driver>>

NextRender ==
    \/ \E r \in {0, 270} : GraySetRotation(r)
    \/ \E c \in BOOLEAN : GrayFill(c)
    \/ \E p \in {<<0, 0>>, <<RotatedDims(size, gray.rotation)[1] - 1,
                              RotatedDims(size, gray.rotation)[2] - 1>>},
          l \in LevelInputs(bpp), oc \in BOOLEAN :
           GrayDrawPixel(p[1], p[2], l, oc)
    \/ RenderDisplayFrame

SpecRender == InitRender /\ [][NextRender]_vars

-----------------------------------------------------------------------------
(* A FastUpdateEpd used as its documentation has it, on a transport that
   works: init first, and then display_frame, display_frame_full_update,
   sleep and wake_up in any order, every call returning Ok *)

\* FastUpdateEpd::new
InitFastUpdate == InitSession /\ session = "FastUpdateEpd"

\* the operation returns Ok
ReturnsOk == result' = "Ok"

\* init has returned Ok before
Initialised == phase # "Uninitialized"

NextFastUpdate ==
    \/ SessionInit /\ ReturnsOk
    \/ Initialised /\ SessionDisplayFrame /\ ReturnsOk
    \/ Initialised /\ SessionDisplayFrameFullUpdate /\ ReturnsOk
    \/ Initialised /\ SessionSleep /\ ReturnsOk
    \/ Initialised /\ SessionWakeUp /\ ReturnsOk

SpecFastUpdate == InitFastUpdate /\ [][NextFastUpdate]_vars

-----------------------------------------------------------------------------
(* The two planes of a TriColorEpd as a state machine *)

TriColors == {"White", "Black", "Red"}

\* TriColorEpd::new
InitTri ==
    /\ size \in Sizes
    /\ framebuf = FrameBuffer_new_ones(size)
    /\ framebuf1 = FrameBuffer_new(size)
    /\ prev = framebuf.buf
    /\ prev1 = framebuf1.buf
    /\ panicked = "none"
    /\ last = NoOp
    /\ draws = 0
    /\ NoWait
    /\ pins = PinsIdle
    /\ waveform = "default"
    /\ bpp = 2
    /\ gray = GrayFrameBuffer_new(size, bpp)
    /\ gprev = gray.buf
    /\ session = "TriColorEpd"
    /\ driver = "SSD1680"
    /\ phase = "Uninitialized"
    /\ log = <<>>
    /\ result = "Ok"

TriSetRotation(r) ==
    /\ Alive
    /\ LET t == TriColorEpd_set_rotation(framebuf, framebuf1, r)
       IN  /\ framebuf' = t.fb0
           /\ framebuf1' = t.fb1
    /\ last' = [NoOp EXCEPT !.op = "set_rotation", !.x = r]
    /\ prev' = framebuf.buf
    /\ prev1' = framebuf1.buf
    /\ UNCHANGED <<pins, waitVars, size, panicked, draws, grayVars, sessVars>>

TriDrawPixel(x, y, color, overflow_checks) ==
    /\ Alive
    /\ draws < MaxDraws
    /\ LET t == TriColorEpd_draw_iter(framebuf, framebuf1, size, x, y, color, overflow_checks)
       IN  /\ framebuf' = t.fb0
           /\ framebuf1' = t.fb1
           /\ panicked' = t.panic
    /\ last' = [NoOp EXCEPT !.op = "draw_iter", !.x = x, !.y = y, !.tricolor = color]
    /\ prev' = framebuf.buf
    /\ prev1' = framebuf1.buf
    /\ draws' = draws + 1
    /\ UNCHANGED <<pins, waitVars, size, grayVars, sessVars>>

NextTri ==
    \/ \E r \in {0, 90, 180, 270, 45} : TriSetRotation(r)
    \/ \E x \in CoordsX(framebuf), y \in CoordsY(framebuf), c \in TriColors, oc \in BOOLEAN :
           TriDrawPixel(x, y, c, oc)

SpecTri == InitTri /\ [][NextTri]_vars

-----------------------------------------------------------------------------
(* The driver functions as a state machine: one action per associated
   function of the driver traits, called directly on a transport that can
   fail any one of the function's writes *)

\* channel: u8
Channels == {0, 1, 2, 255}

\* the plane bytes handed to update_frame and update_channel_frame
DriverBuffers == { <<>>, <<\hff, \h00>> }

InitDriver ==
    /\ size = SizePadded(3, 2)
    /\ session = "none"
    /\ driver \in Drivers
    /\ bpp = 2
    /\ framebuf = FrameBuffer_new(size)
    /\ framebuf1 = FrameBuffer_new(size)
    /\ gray = GrayFrameBuffer_new(size, bpp)
    /\ prev = framebuf.buf
    /\ prev1 = framebuf1.buf
    /\ gprev = gray.buf
    /\ panicked = "none"
    /\ last = NoOp
    /\ draws = 0
    /\ NoWait
    /\ pins = PinsIdle
    /\ waveform = "default"
    /\ phase = "Uninitialized"
    /\ log = <<>>
    /\ result = "Ok"

\* D::fn(di, args..) runs to r = Run(..)
DriverReturned(fn, r) ==
    /\ log' = r.log
    /\ result' = r.result
    /\ panicked' = IF r.result = "panic" THEN "unwrap" ELSE "none"
    /\ last' = [NoOp EXCEPT !.op = fn]
    /\ waveform' = WaveformAfter(waveform, r.log)
    /\ UNCHANGED <<pins, waitVars, size, draws, binVars, grayVars, session, driver, phase>>

DriverWakeUp ==
    /\ Alive
    /\ LET calls == Call("wake_up", <<>>) \o wake_up(driver)
       IN  \E p \in FailPoints(calls) : DriverReturned("wake_up", Run(calls, p))

DriverUpdateChannelFrame(channel, buffer) ==
    /\ Alive
    /\ driver \in MultiColorDrivers
    /\ LET calls == Call("update_channel_frame", <<channel>>)
                    \o update_channel_frame(driver, channel, buffer)
       IN  \E p \in FailPoints(calls) :
               DriverReturned("update_channel_frame", Run(calls, p))

DriverUpdateFrame(buffer) ==
    /\ Alive
    /\ LET calls == Call("update_frame", buffer) \o update_frame(driver, buffer)
       IN  \E p \in FailPoints(calls) :
               DriverReturned("update_frame", Run(calls, p))

DriverTurnOnDisplay ==
    /\ Alive
    /\ LET calls == Call("turn_on_display", <<>>) \o turn_on_display(driver)
       IN  \E p \in FailPoints(calls) :
               DriverReturned("turn_on_display", Run(calls, p))

NextDriver ==
    \/ DriverWakeUp
    \/ \E channel \in Channels, buffer \in DriverBuffers :
           DriverUpdateChannelFrame(channel, buffer)
    \/ \E buffer \in DriverBuffers : DriverUpdateFrame(buffer)
    \/ DriverTurnOnDisplay

SpecDriver == InitDriver /\ [][NextDriver]_vars

-----------------------------------------------------------------------------
(* busy_wait as a state machine: one step per call it makes on the
   transport, and one per evaluation of its loop condition, while the
   controller moves its busy line on its own *)

\* D::busy_wait: the impl's own, else the provided method
busy_wait(D) ==
    CASE D = "PervasiveDisplays" -> PervasiveDisplays_busy_wait
      [] D = "UC8176" -> UC8176_busy_wait
      [] D = "UC8179" -> UC8179_busy_wait
      [] OTHER -> Driver_busy_wait

InitBusyWait ==
    /\ size = SizePadded(3, 2)
    /\ session = "none"
    /\ driver \in Drivers
    /\ bpp = 2
    /\ framebuf = FrameBuffer_new(size)
    /\ framebuf1 = FrameBuffer_new(size)
    /\ gray = GrayFrameBuffer_new(size, bpp)
    /\ prev = framebuf.buf
    /\ prev1 = framebuf1.buf
    /\ gprev = gray.buf
    /\ panicked = "none"
    /\ last = NoOp
    /\ draws = 0
    /\ phase = "Uninitialized"
    /\ log = <<>>
    /\ result = "Ok"
    /\ busy \in {0, 1}
    /\ pc = 0
    /\ polls = 0
    /\ waveform = "default"
    /\ pins = PinsIdle

\* Self::busy_wait(di) is called
BusyWaitCall ==
    /\ Alive
    /\ pc = 0
    /\ pc' = 1
    /\ polls' = 0
    /\ result' = "running"
    /\ last' = [NoOp EXCEPT !.op = "busy_wait"]
    /\ UNCHANGED <<busy, size, panicked, draws, binVars, grayVars, session, driver,
                   phase, log, waveform, pins>>

\* call pc of busy_wait is done: the next call, or Ok(()) after the last
BusyWaitAdvance ==
    IF pc = Len(busy_wait(driver)) THEN pc' = 0 /\ result' = "Ok"
    ELSE pc' = pc + 1 /\ UNCHANGED result

\* di.send_command(c)?, the transport returning Ok (ok) or Err
BusyWaitSendCommand(ok) ==
    /\ pc # 0
    /\ LET e == busy_wait(driver)[pc]
       IN  /\ e.k = "command"
           /\ last' = [NoOp EXCEPT !.op = "send_command", !.x = e.c]
           /\ IF ok THEN BusyWaitAdvance /\ UNCHANGED panicked
              ELSE /\ pc' = 0
                   /\ result' = IF e.h = "unwrap" THEN "panic" ELSE "Err"
                   /\ panicked' = IF e.h = "unwrap" THEN "unwrap" ELSE "none"
    /\ UNCHANGED <<busy, polls, size, draws, binVars, grayVars, session, driver,
                   phase, log, waveform, pins>>

\* one evaluation of the loop condition, while di.is_busy_on() {} or
\* while !di.is_busy_on() {}: the level read is kept in last.level
BusyWaitPoll ==
    /\ pc # 0
    /\ LET e == busy_wait(driver)[pc]
       IN  /\ e.k = "is_busy_on"
           /\ last' = [NoOp EXCEPT !.op = "is_busy_on", !.level = busy]
           /\ IF busy = e.c THEN BusyWaitAdvance ELSE UNCHANGED <<pc, result>>
    /\ polls' = IF polls < MaxPolls THEN polls + 1 ELSE polls
    /\ UNCHANGED <<busy, size, panicked, draws, binVars, grayVars, session, driver,
                   phase, log, waveform, pins>>

\* the controller raises or drops its busy line
BusySignal ==
    /\ busy' = 1 - busy
    /\ UNCHANGED <<pc, polls, size, panicked, last, draws, binVars, grayVars, sessVars,
                   pins>>

\* the program runs on: the call busy_wait is at is made
BusyWaitStep == BusyWaitPoll \/ \E ok \in BOOLEAN : BusyWaitSendCommand(ok)

NextBusyWait ==
    \/ BusyWaitCall
    \/ \E ok \in BOOLEAN : BusyWaitSendCommand(ok)
    \/ BusyWaitPoll
    \/ BusySignal

\* busy_wait spins without yielding: while it is inside the loop, or at a
\* transport call, that step is taken
SpecBusyWait == InitBusyWait /\ [][NextBusyWait]_vars /\ WF_vars(BusyWaitStep)

-----------------------------------------------------------------------------
(* set_rotation and bounding_box of the planes and of the sessions, as a
   state machine over the type the calls are made on *)

\* the types with a set_rotation and a bounding_box
Rotatables == {"FrameBuffer", "GrayFrameBuffer"} \cup Sessions

InitRotation ==
    /\ size \in Sizes
    /\ session \in Rotatables
    /\ driver = "SSD1619A"
    /\ bpp \in IF session = "GrayFrameBuffer" THEN Depths
               ELSE IF session = "GrayScaleEpd" THEN {4} ELSE {2}
    /\ framebuf \in IF session = "FrameBuffer"
                       THEN {FrameBuffer_new(size), FrameBuffer_new_inverted(size)}
                       ELSE {FrameBuffer_new_ones(size)}
    /\ framebuf1 = FrameBuffer_new(size)
    /\ gray = GrayFrameBuffer_new(size, bpp)
    /\ prev = framebuf.buf
    /\ prev1 = framebuf1.buf
    /\ gprev = gray.buf
    /\ panicked = "none"
    /\ last = NoOp
    /\ draws = 0
    /\ NoWait
    /\ pins = PinsIdle
    /\ waveform = "default"
    /\ phase = "Uninitialized"
    /\ log = <<>>
    /\ result = "Ok"

\* FrameBuffer::set_rotation, GrayFrameBuffer::set_rotation, and set_rotation
\* of Epd, FastUpdateEpd, TriColorEpd and GrayScaleEpd on their planes
RotSetRotation(r) ==
    CASE session \in {"FrameBuffer", "Epd", "FastUpdateEpd"} -> SetRotation(r)
      [] session = "TriColorEpd" -> TriSetRotation(r)
      [] session \in {"GrayFrameBuffer", "GrayScaleEpd"} -> GraySetRotation(r)

\* FrameBuffer::set_mirroring, GrayFrameBuffer::set_mirroring (the sessions
\* have none)
RotSetMirroring(m) ==
    CASE session = "FrameBuffer" -> SetMirroring(m)
      [] session = "GrayFrameBuffer" -> GraySetMirroring(m)
      [] OTHER -> FALSE

\* Dimensions::bounding_box of the type: the sessions hand on their plane's
\* (TriColorEpd that of framebuf0)
bounding_box ==
    IF session \in {"GrayFrameBuffer", "GrayScaleEpd"}
    THEN GrayFrameBuffer_bounding_box(gray, size)
    ELSE FrameBuffer_bounding_box(framebuf, size)

\* rotation: i32
RotationInputs == {0, 90, 180, 270, 45, -90, 360}

NextRotation ==
    \/ \E r \in RotationInputs : RotSetRotation(r)
    \/ \E m \in Mirrorings : RotSetMirroring(m)

SpecRotation == InitRotation /\ [][NextRotation]_vars

-----------------------------------------------------------------------------
(* The binary plane of the 2.9 inch panel (DisplaySize128x296) as a state
   machine: the operations of the plane, with pixel writes at its corners *)

InitPlane128x296 ==
    /\ size = DisplaySize128x296
    /\ framebuf \in {FrameBuffer_new(size), FrameBuffer_new_inverted(size)}
    /\ framebuf1 = FrameBuffer_new(SizeExact(8, 2))
    /\ panicked = "none"
    /\ last = NoOp
    /\ prev = framebuf.buf
    /\ prev1 = framebuf1.buf
    /\ draws = 0
    /\ NoWait
    /\ pins = PinsIdle
    /\ waveform = "default"
    /\ bpp = 2
    /\ gray = GrayFrameBuffer_new(SizePadded(3, 2), bpp)
    /\ gprev = gray.buf
    /\ session = "FrameBuffer"
    /\ driver = "SSD1608"
    /\ phase = "Uninitialized"
    /\ log = <<>>
    /\ result = "Ok"

\* the logical corners, and the pixel next to the origin
CornerCoords ==
    LET d == RotatedDims(size, framebuf.rotation)
    IN  {<<0, 0>>, <<1, 0>>, <<d[1] - 1, 0>>, <<0, d[2] - 1>>, <<d[1] - 1, d[2] - 1>>}

NextPlane128x296 ==
    \/ \E r \in {0, 90, 180, 270} : SetRotation(r)
    \/ \E v \in BOOLEAN : SetInverted(v)
    \/ \E c \in BOOLEAN : Fill(c)
    \/ \E p \in CornerCoords, c \in BOOLEAN, oc \in BOOLEAN : DrawPixel(p[1], p[2], c, oc)

SpecPlane128x296 == InitPlane128x296 /\ [][NextPlane128x296]_vars

-----------------------------------------------------------------------------
(* The binary plane of every declared geometry as a state machine: rotation,
   fill, and pixel writes at the first and the last pixel *)

InitDeclared ==
    /\ size \in DeclaredSizes
    /\ framebuf = FrameBuffer_new(size)
    /\ framebuf1 = FrameBuffer_new(SizeExact(8, 2))
    /\ panicked = "none"
    /\ last = NoOp
    /\ prev = framebuf.buf
    /\ prev1 = framebuf1.buf
    /\ draws = 0
    /\ NoWait
    /\ pins = PinsIdle
    /\ waveform = "default"
    /\ bpp = 2
    /\ gray = GrayFrameBuffer_new(SizePadded(3, 2), bpp)
    /\ gprev = gray.buf
    /\ session = "FrameBuffer"
    /\ driver = "SSD1608"
    /\ phase = "Uninitialized"
    /\ log = <<>>
    /\ result = "Ok"

\* the first and the last pixel of the rotated bounding box
EndCoords ==
    LET d == RotatedDims(size, framebuf.rotation)
    IN  {<<0, 0>>, <<d[1] - 1, d[2] - 1>>}

NextDeclared ==
    \/ \E r \in {0, 90, 180, 270} : SetRotation(r)
    \/ \E c \in BOOLEAN : Fill(c)
    \/ \E p \in EndCoords, oc \in BOOLEAN : DrawPixel(p[1], p[2], FALSE, oc)

SpecDeclared == InitDeclared /\ [][NextDeclared]_vars

-----------------------------------------------------------------------------
(* EPDInterface as a state machine: one action per function of the
   DisplayInterface that transfers, on a bus and pins any call of which can
   return Err *)

Levels == {"high", "low"}

\* command: u8
InterfaceCommands == {\h12, \h24}

\* data: &[u8], and the bytes an iterator yields
InterfaceData == {<<>>, <<\h01>>, <<\hff, \h00>>}

\* the calls that return Err during one function
HalFaults == [cs_low : BOOLEAN, dc : BOOLEAN, spi : 0 .. 2, cs_high : BOOLEAN]

\* EPDInterface::new takes the pins at the levels its caller left them
InitInterface ==
    /\ size = SizePadded(3, 2)
    /\ session = "none"
    /\ driver = "none"
    /\ bpp = 2
    /\ framebuf = FrameBuffer_new(size)
    /\ framebuf1 = FrameBuffer_new(size)
    /\ gray = GrayFrameBuffer_new(size, bpp)
    /\ prev = framebuf.buf
    /\ prev1 = framebuf1.buf
    /\ gprev = gray.buf
    /\ panicked = "none"
    /\ last = NoOp
    /\ draws = 0
    /\ NoWait
    /\ waveform = "default"
    /\ phase = "Uninitialized"
    /\ log = <<>>
    /\ result = "Ok"
    /\ pins \in [cs : Levels, dc : Levels]

\* the function fn returned r
InterfaceReturned(fn, r) ==
    /\ log' = r.log
    /\ result' = r.result
    /\ pins' = r.pins
    /\ last' = [NoOp EXCEPT !.op = fn]
    /\ UNCHANGED <<waitVars, size, panicked, draws, binVars, grayVars, session, driver,
                   phase, waveform>>

InterfaceSendCommand(command, f) ==
    InterfaceReturned("send_command", EPDInterface_send_command(pins, command, f))

InterfaceSendData(data, f) ==
    InterfaceReturned("send_data", EPDInterface_send_data(pins, data, f))

InterfaceSendDataFromIter(bytes, f) ==
    InterfaceReturned("send_data_from_iter",
                      EPDInterface_send_data_from_iter(pins, bytes, f))

InterfaceSendCommandData(command, data, f, g) ==
    InterfaceReturned("send_command_data",
                      EPDInterface_send_command_data(pins, command, data, f, g))

NextInterface ==
    \/ \E command \in InterfaceCommands, f \in HalFaults :
           InterfaceSendCommand(command, f)
    \/ \E data \in InterfaceData, f \in HalFaults : InterfaceSendData(data, f)
    \/ \E bytes \in InterfaceData, f \in HalFaults :
           InterfaceSendDataFromIter(bytes, f)
    \/ \E command \in InterfaceCommands, data \in InterfaceData, f, g \in HalFaults :
           InterfaceSendCommandData(command, data, f, g)

SpecInterface == InitInterface /\ [][NextInterface]_vars

-----------------------------------------------------------------------------
(* Claims about the binary plane *)

\* the logical coordinates inside the rotated bounding box [0, w) x [0, h)
Box(sz, rotation) ==
    LET d == RotatedDims(sz, rotation)
    IN  (0 .. d[1] - 1) \X (0 .. d[2] - 1)

\* the bits, <<byte offset, bit>>, in which two buffers of the same length differ
ChangedBits(b1, b2) ==
    {a \in (DOMAIN b1) \X (0 .. 7) : BitOf(b1[a[1]], a[2]) # BitOf(b2[a[1]], a[2])}

\* the <<byte offset, bit>> set_pixel addresses for a logical coordinate
AddrOf(sz, rotation, mirroring, x, y) ==
    LET p == Physical(sz, rotation, mirroring, x, y)
    IN  <<ByteOffset(sz, p), BitIndex(p)>>

LastDraw == last.op = "draw_iter"

\* C1: a pixel write whose logical coordinate lies outside the rotated bounding
\* box (x = w, y = h and negative coordinates included) changes no byte of
\* the buffer and does not fault.
C1_OutOfRangeWriteDropped ==
    (LastDraw /\ <<last.x, last.y>> \notin Box(size, framebuf.rotation))
        => (panicked = "none" /\ framebuf.buf = prev)

\* C2: under the current rotation and mirroring every logical coordinate inside
\* the rotated bounding box is addressed, without overflow, to a byte inside the
\* buffer; distinct in-range coordinates get distinct <<byte offset, bit>>; and
\* an in-range pixel write touches no bit but the one so addressed.
C2_InRangeInjective ==
    LET box == Box(size, framebuf.rotation)
        A(c) == AddrOf(size, framebuf.rotation, framebuf.mirroring, c[1], c[2])
    IN  /\ \A c \in box :
              /\ ~FrameBuffer_overflow(size, framebuf.rotation, c[1], c[2])
              /\ ~RotateOverflows(size, framebuf.rotation, c[1], c[2])
              /\ ~MirrorOverflows(size, framebuf.mirroring,
                                  Rotate(size, framebuf.rotation, c[1], c[2]))
              /\ A(c)[1] \in 0 .. size.N - 1
              /\ A(c)[2] \in 0 .. 7
        /\ Cardinality({A(c) : c \in box}) = Cardinality(box)
        /\ (LastDraw /\ <<last.x, last.y>> \in box)
              => /\ panicked = "none"
                 /\ ChangedBits(prev, framebuf.buf) \subseteq {A(<<last.x, last.y>>)}

\* an in-range write under a transposing rotation and both mirrors took effect
C2_Witness ==
    /\ LastDraw
    /\ framebuf.rotation = "Rotate90"
    /\ framebuf.mirroring = "Origin"
    /\ <<last.x, last.y>> \in Box(size, framebuf.rotation)
    /\ last.x > 0
    /\ framebuf.buf # prev

\* C24: for every declared display geometry the plane size N, which is the
\* length of the plane's buffer, equals bytes_per_row * HEIGHT with
\* bytes_per_row = ceil(WIDTH / 8), the row stride set_pixel uses.
C24_PlaneSizeIsStrideTimesHeight ==
    /\ Cardinality(DOMAIN framebuf.buf) = size.N
    /\ WidthInByte(size) * 8 >= size.W
    /\ (WidthInByte(size) - 1) * 8 < size.W
    /\ size.N = WidthInByte(size) * size.H

\* every byte of the plane is b
AllBytes(b) == \A i \in DOMAIN framebuf.buf : framebuf.buf[i] = b

ColourAt(buf, inverted, a) == (BitOf(buf[a[1]], a[2]) = 1) = inverted

\* C17: a write of one in-range pixel with the colour opposite to its current
\* one changes exactly one bit (so one byte) of the buffer, and a write with
\* its current colour changes nothing.
C17_ToggleFlipsOneBit ==
    (LastDraw /\ <<last.x, last.y>> \in Box(size, framebuf.rotation)) =>
        LET a == AddrOf(size, framebuf.rotation, framebuf.mirroring, last.x, last.y)
            d == ChangedBits(prev, framebuf.buf)
        IN  /\ panicked = "none"
            /\ IF ColourAt(prev, framebuf.inverted, a) # last.color
               THEN Cardinality(d) = 1 /\ ColourAt(framebuf.buf, framebuf.inverted, a) = last.color
               ELSE framebuf.buf = prev

\* an in-range write of the opposite colour on an inverted, rotated plane
C17_Witness ==
    /\ LastDraw
    /\ <<last.x, last.y>> \in Box(size, framebuf.rotation)
    /\ framebuf.inverted
    /\ framebuf.rotation = "Rotate270"
    /\ Cardinality(ChangedBits(prev, framebuf.buf)) = 1

\* an in-range write of the colour the pixel already has
C17_WitnessSameColour ==
    /\ LastDraw
    /\ <<last.x, last.y>> \in Box(size, framebuf.rotation)
    /\ ColourAt(prev, framebuf.inverted,
                AddrOf(size, framebuf.rotation, framebuf.mirroring, last.x, last.y))
           = last.color

\* a write at logical (0,0) on the 128x296 plane turned by 270, unmirrored
DrawnAtOrigin270 ==
    /\ LastDraw /\ last.x = 0 /\ last.y = 0
    /\ size = DisplaySize128x296
    /\ framebuf.rotation = "Rotate270" /\ framebuf.mirroring = "None"

\* C20 as stated: on a 128x296 plane with rotation 270 and no mirroring, a
\* write at logical (0,0) leaves bit 7 of byte 0 set (cleared under
\* inversion) and touches no other bit.
C20_OriginAt270IsByte0 ==
    DrawnAtOrigin270 =>
        /\ ChangedBits(prev, framebuf.buf) \subseteq {<<0, 7>>}
        /\ BitOf(framebuf.buf[0], 7) = IF framebuf.inverted THEN 0 ELSE 1

\* C20, amended: that write addresses bit 7 of byte 4720 (row 295, column 0):
\* Off leaves it set and On cleared, the other way round under inversion, and
\* no other bit is touched.
C20_OriginAt270IsByte4720 ==
    DrawnAtOrigin270 =>
        /\ panicked = "none"
        /\ ChangedBits(prev, framebuf.buf) \subseteq {<<4720, 7>>}
        /\ BitOf(framebuf.buf[4720], 7) = IF last.color = framebuf.inverted THEN 1 ELSE 0

\* the write took effect
C20_Witness == DrawnAtOrigin270 /\ ChangedBits(prev, framebuf.buf) = {<<4720, 7>>}

-----------------------------------------------------------------------------
(* Claims about the gray plane *)

\* the buffer after set_pixel(c, luma) on gray g
GrayAfterSet(g, c, luma) ==
    GrayFrameBuffer_set_pixel(g, size, bpp, c[1], c[2], luma, TRUE)

\* C3: on a gray plane of depth 2, 3, 4 or 8 with rotation 0 and no
\* mirroring, writing a luma at an in-range coordinate and then reading the
\* same coordinate with get_pixel_in_raw_pos returns that luma: for the write
\* the plane has just performed, and, on a plane no pixel has been written to
\* yet, for every luma of the depth at every in-range coordinate.
C3_GrayRoundTrip ==
    (gray.rotation = "Rotate0" /\ gray.mirroring = "None") =>
        /\ (LastDraw /\ <<last.x, last.y>> \in Box(size, "Rotate0")) =>
               /\ panicked = "none"
               /\ GrayFrameBuffer_get_pixel_in_raw_pos(gray, size, bpp, last.x, last.y)
                      = last.level
        /\ draws = 0 =>
               \A c \in Box(size, "Rotate0"), l \in 0 .. (2 ^ bpp) - 1 :
                   LET r == GrayAfterSet(gray, c, l)
                   IN  /\ r.panic = "none"
                       /\ GrayFrameBuffer_get_pixel_in_raw_pos(r.fb, size, bpp, c[1], c[2]) = l

\* a luma with mixed bits written at depth 3 to the pixel that straddles the
\* first byte boundary of its row, over a cleared plane
C3_Witness ==
    /\ LastDraw
    /\ bpp = 3
    /\ gray.rotation = "Rotate0" /\ gray.mirroring = "None"
    /\ last.x = 2 /\ last.y = 1 /\ last.level = 5
    /\ gprev = [i \in DOMAIN gprev |-> 0]
    /\ gray.buf # gprev

\* the level get_pixel_in_raw_pos reads at the raw position q of the gray
\* plane holding the bytes buf
LevelAt(buf, q) ==
    GrayFrameBuffer_get_pixel_in_raw_pos([gray EXCEPT !.buf = buf], size, bpp, q[1], q[2])

\* C36: GrayFrameBuffer::set_pixel on an in-range pixel changes only the b
\* bits of that pixel: at every depth b in {2, 3, 4, 8}, depth 3 where the
\* bits of a pixel straddle a byte boundary included, the level read back for
\* every other pixel of the plane is unchanged by the write.
C36_OtherPixelsKeepLevel ==
    (LastDraw /\ <<last.x, last.y>> \in Box(size, gray.rotation)) =>
        LET p == Physical(size, gray.rotation, gray.mirroring, last.x, last.y)
        IN  /\ panicked = "none"
            /\ \A q \in Box(size, "Rotate0") \ {p} :
                   LevelAt(gray.buf, q) = LevelAt(gprev, q)

\* a dark pixel of depth 3 written over a light plane at the raw pixel (2, 0),
\* whose bits 6..8 of the row lie in two bytes: its neighbour (1, 0) shares
\* the first of them and still reads the lightest level
C36_Witness ==
    /\ LastDraw
    /\ bpp = 3
    /\ Physical(size, gray.rotation, gray.mirroring, last.x, last.y) = <<2, 0>>
    /\ <<last.x, last.y>> \in Box(size, gray.rotation)
    /\ last.level = 0
    /\ gprev = [i \in DOMAIN gprev |-> 255]
    /\ gray.buf[0] # 255 /\ gray.buf[1] # 255
    /\ LevelAt(gray.buf, <<1, 0>>) = 7

\* the level 2^b - 1 for a value above it, else the value
Saturated(b, v) == IF v > (2 ^ b) - 1 THEN (2 ^ b) - 1 ELSE v

\* C18: at every depth b in {2, 3, 4, 8}, from_u8(v) is 2^b - 1 for v above
\* 2^b - 1 and v otherwise, so a pixel written with from_u8(v) stores that
\* level.
C18_FromU8Saturates ==
    (last.op = "draw_from_u8") =>
        /\ from_u8(bpp, last.level) = Saturated(bpp, last.level)
        /\ (/\ gray.rotation = "Rotate0" /\ gray.mirroring = "None"
            /\ <<last.x, last.y>> \in Box(size, "Rotate0")) =>
               GrayFrameBuffer_get_pixel_in_raw_pos(gray, size, bpp, last.x, last.y)
                   = Saturated(bpp, last.level)

\* the physical pixel of logical (x, y) on a W x H plane: the rotation map,
\* then the mirror map within the un-rotated plane
PhysicalPixel(W, H, rotation, mirroring, x, y) ==
    LET r == CASE rotation = "Rotate0" -> <<x, y>>
               [] rotation = "Rotate90" -> <<W - 1 - y, x>>
               [] rotation = "Rotate180" -> <<W - 1 - x, H - 1 - y>>
               [] rotation = "Rotate270" -> <<y, H - 1 - x>>
    IN  CASE mirroring = "None" -> r
          [] mirroring = "Horizontal" -> <<W - 1 - r[1], r[2]>>
          [] mirroring = "Vertical" -> <<r[1], H - 1 - r[2]>>
          [] mirroring = "Origin" -> <<W - 1 - r[1], H - 1 - r[2]>>

\* the bits, <<byte, bit>>, of the physical pixel q at depth b: bits
\* q[1] * b + i of row q[2], rows of ceil(W * b / 8) bytes, the most
\* significant bit of a byte first
PixelBits(W, b, q) ==
    LET bytes_per_row == (W * b + 7) \div 8
    IN  { <<bytes_per_row * q[2] + ((q[1] * b + i) \div 8), 7 - ((q[1] * b + i) % 8)>> :
              i \in 0 .. b - 1 }

\* a cleared binary plane with the rotation and mirroring of the gray plane
BinaryTwin ==
    [FrameBuffer_new(size) EXCEPT !.rotation = gray.rotation,
                                  !.mirroring = gray.mirroring]

\* C25: for an in-range logical (x, y), set_pixel addresses the physical pixel
\* obtained by rotating and then mirroring within the un-rotated W x H plane,
\* and at depth b writes bits x' * b + i (i in 0..b) of row y', most
\* significant bit of a byte first, and no other bit: on the gray plane for
\* the write just performed, and on a binary plane (b = 1) with the same
\* rotation and mirroring for a write at every in-range coordinate (checked
\* under every size, rotation and mirroring, in the states that precede the
\* first gray write). A write of the complement of what is stored changes
\* every one of these bits.
C25_PhysicalAddress ==
    LET Q(c) == PhysicalPixel(size.W, size.H, gray.rotation, gray.mirroring, c[1], c[2])
    IN  /\ (LastDraw /\ <<last.x, last.y>> \in Box(size, gray.rotation)) =>
               LET bits == PixelBits(size.W, bpp, Q(<<last.x, last.y>>))
               IN  /\ panicked = "none"
                   /\ \A a \in bits : a[1] \in DOMAIN gray.buf
                   /\ ChangedBits(gprev, gray.buf) \subseteq bits
                   /\ \/ ChangedBits(gprev, gray.buf) = bits
                      \/ ~ \/ last.level = 0 /\ gprev = [i \in DOMAIN gprev |-> 255]
                           \/ last.level = (2 ^ bpp) - 1 /\ gprev = [i \in DOMAIN gprev |-> 0]
        /\ draws = 0 =>
               \A c \in Box(size, gray.rotation), colour \in BOOLEAN :
                   LET r == FrameBuffer_set_pixel(BinaryTwin, size, c[1], c[2], colour, TRUE)
                       bits == PixelBits(size.W, 1, Q(c))
                   IN  /\ r.panic = "none"
                       /\ \A a \in bits : a[1] \in DOMAIN BinaryTwin.buf
                       /\ ChangedBits(BinaryTwin.buf, r.fb.buf)
                              = IF colour THEN {} ELSE bits

\* a dark pixel of depth 3 written into a light plane under a quarter turn and
\* a mirror, at the logical pixel whose bits straddle a byte boundary
C25_Witness ==
    /\ LastDraw
    /\ bpp = 3
    /\ gray.rotation = "Rotate270"
    /\ gray.mirroring = "Horizontal"
    /\ last.x = 0 /\ last.y = 0
    /\ last.level = 0
    /\ gprev = [i \in DOMAIN gprev |-> 255]
    /\ Cardinality(ChangedBits(gprev, gray.buf)) = 3
    /\ Cardinality({a[1] : a \in ChangedBits(gprev, gray.buf)}) = 2

\* C21: on a gray plane, under every rotation and mirroring, a pixel write
\* whose logical coordinate lies outside the rotated bounding box (x = w,
\* y = h and negative coordinates cast to unsigned included) changes no byte
\* of the buffer and does not fault.
C21_GrayOutOfRangeWriteDropped ==
    (LastDraw /\ <<last.x, last.y>> \notin Box(size, gray.rotation))
        => (panicked = "none" /\ gray.buf = gprev)

\* a dark pixel was written at x = w, just past the last column, of a light
\* plane under a transposing rotation and both mirrors
C21_Witness ==
    /\ LastDraw
    /\ gray.rotation = "Rotate90"
    /\ gray.mirroring = "Origin"
    /\ last.x = RotatedDims(size, gray.rotation)[1]
    /\ last.y = 0
    /\ last.level = 0
    /\ gprev = [i \in DOMAIN gprev |-> 255]

\* a pixel was written at a negative coordinate
C21_WitnessNegative ==
    /\ LastDraw
    /\ last.x = -1
    /\ last.y = -1
    /\ last.level = 0
    /\ gprev = [i \in DOMAIN gprev |-> 255]

-----------------------------------------------------------------------------
(* Claims about the sessions *)

\* the driver functions a log enters, in order: <<function, arguments>>
Entered(l) ==
    LET c == SelectSeq(l, LAMBDA e : e.k = "call")
    IN  [i \in DOMAIN c |-> <<c[i].name, c[i].d>>]

IsPrefix(s, t) == Len(s) <= Len(t) /\ SubSeq(t, 1, Len(s)) = s

\* the positions of the transport calls that returned Err
Failed(l) == {i \in DOMAIN l : ~l[i].ok}

\* the positions at which a plane (or a run of filler bytes) goes to the
\* controller's RAM
Transfers(l) == {i \in DOMAIN l : l[i].k = "data_iter"}

\* the chips of the UC81xx command set; the others speak the SSD16xx set
UC81xx == {"PervasiveDisplays", "UC8176", "UC8179"}

\* the command that starts the refresh: Display Refresh (0x12) on the UC81xx
\* chips, Master Activation (0x20) on the SSD16xx chips
ActivationCommand(D) == IF D \in UC81xx THEN \h12 ELSE \h20

\* the command that carries the geometry: Resolution Setting (0x61) on the
\* UC81xx chips, Set RAM X Address Start/End (0x44) on the SSD16xx chips
ShapeCommand(D) == IF D \in UC81xx THEN \h61 ELSE \h44

\* what is_busy_on reads when the controller is idle: the busy line of the
\* UC81xx chips is active low
IdleLevel(D) == IF D \in UC81xx THEN 1 ELSE 0

Activations(l) ==
    {i \in DOMAIN l : l[i].k = "command" /\ l[i].c = ActivationCommand(driver)}

Flushes == {"display_frame", "display_frame_full_update", "clear_display"}

\* the pairs of GrayScaleEpd::display_frame from level i down to 0
RECURSIVE LevelPairs(_)
LevelPairs(i) ==
    IF i < 0 THEN <<>>
    ELSE << <<"update_frame", <<i>>>>, <<"WaveformDriver::turn_on_display", <<>>>> >>
         \o LevelPairs(i - 1)

\* C4: GrayScaleEpd::display_frame on a plane of depth b (2, 3 or 4) calls
\* setup_gray_scale_waveform once, before any transfer, and then makes exactly
\* 2^b (update_frame, turn_on_display) pairs, alternating, one per level from
\* 2^b - 1 down to 0; each pair sends one plane and one activation. A flush a
\* transport error cuts short has made a prefix of these calls.
C4_GrayPassOrder ==
    (session = "GrayScaleEpd" /\ last.op = "display_frame") =>
        LET want == << <<"setup_gray_scale_waveform", <<>>>> >> \o LevelPairs((2 ^ bpp) - 1)
        IN  /\ IsPrefix(Entered(log), want)
            /\ \A t \in Transfers(log) :
                   \E c \in 1 .. t : log[c].k = "call" /\ log[c].name = "setup_gray_scale_waveform"
            /\ result = "Ok" =>
                   /\ Entered(log) = want
                   /\ Len(Entered(log)) = 1 + 2 * (2 ^ bpp)
                   /\ Cardinality({t \in Transfers(log) : log[t].name = ""}) = 2 ^ bpp
                   /\ Cardinality(Activations(log)) = 2 ^ bpp

\* a depth-4 plane rendered in full: 16 pairs, 15 down to 0
C4_Witness ==
    /\ session = "GrayScaleEpd"
    /\ bpp = 4
    /\ last.op = "display_frame"
    /\ result = "Ok"
    /\ Len(Entered(log)) = 33
    /\ Entered(log)[2] = <<"update_frame", <<15>>>>
    /\ Entered(log)[32] = <<"update_frame", <<0>>>>

\* the levels that the pixels of the gray plane read
LevelsStored ==
    {GrayFrameBuffer_get_pixel_in_raw_pos(gray, size, bpp, c[1], c[2]) :
         c \in Box(size, "Rotate0")}

\* C22: GrayScaleEpd::clear_display(color) calls restore_normal_waveform, fills
\* the whole plane with the flat shade, calls update_frame exactly once with
\* the filled plane and turn_on_display exactly once, in this order, with no
\* multi-pass loop; after it every pixel of the plane reads the same level. A
\* clear a transport error cuts short has made a prefix of these calls, and
\* has not filled the plane if restore_normal_waveform failed.
C22_ClearDisplayOnce ==
    (last.op = "clear_display") =>
        LET want == << <<"restore_normal_waveform", <<>>>>,
                       <<"update_frame", <<>>>>,
                       <<"turn_on_display", <<>>>> >>
            planes == {t \in Transfers(log) : log[t].name = ""}
        IN  /\ IsPrefix(Entered(log), want)
            /\ Len(Entered(log)) < 2 => gray.buf = gprev
            /\ Len(Entered(log)) >= 2 => Cardinality(LevelsStored) = 1
            /\ \A t \in planes : log[t].d = as_bytes(gray.buf)
            /\ result = "Ok" =>
                   /\ Entered(log) = want
                   /\ Cardinality(planes) = 1
                   /\ Cardinality(Activations(log)) = 1
                   /\ \A t \in planes, a \in Activations(log) : t < a
                   /\ Cardinality(LevelsStored) = 1

\* a light plane of depth 3 cleared to the dark shade and shown
C22_Witness ==
    /\ last.op = "clear_display"
    /\ bpp = 3
    /\ result = "Ok"
    /\ gprev = [i \in DOMAIN gprev |-> 255]
    /\ LevelsStored = {0}

\* C23: every frame transfer issued by a session flush (display_frame of each
\* session type, each grayscale pass, clear_display) carries exactly
\* ceil(WIDTH / 8) * HEIGHT bytes, the 1-bit window programmed by set_shape.
C23_FullWindowTransfers ==
    (last.op \in Flushes) =>
        \A t \in Transfers(log) : log[t].n = WidthInByte(size) * size.H

\* the frame sent in the pass of level L of the render in the log: the bytes
\* of the first plane transfer after update_frame is entered for L
PassFrame(L) ==
    LET c == CHOOSE i \in DOMAIN log :
                 log[i].k = "call" /\ log[i].name = "update_frame" /\ log[i].d = <<L>>
        t == CHOOSE j \in DOMAIN log :
                 /\ j > c
                 /\ log[j].k = "data_iter"
                 /\ \A k \in c + 1 .. j - 1 : log[k].k # "data_iter"
    IN  log[t].d

\* the bits, <<byte, bit>>, of a frame of the 1-bit window that show a pixel
RawPixelBit(x, y) == <<y * ((size.W + 7) \div 8) + (x \div 8), 7 - (x % 8)>>

\* a render of the plane as it is has returned Ok
Rendered == last.op = "display_frame" /\ result = "Ok" /\ session = "GrayScaleEpd"

\* C26: in the grayscale pass for level L the frame sent to the controller
\* has, for every raw pixel (x, y), bit 7 - x mod 8 of byte
\* y * ceil(WIDTH / 8) + x / 8 equal to 0 (dark) exactly when the stored level
\* of (x, y) is strictly less than L, and 1 (light) otherwise, and all padding
\* bits 1; a pixel stored at exactly L is light in pass L, and the pass of
\* level 0 has no dark pixel.
C26_PassFrameStrictlyBelow ==
    Rendered =>
        \A L \in 0 .. (2 ^ bpp) - 1 :
            LET f == PassFrame(L)
                Stored(c) == GrayFrameBuffer_get_pixel_in_raw_pos(gray, size, bpp, c[1], c[2])
                raw == Box(size, "Rotate0")
            IN  /\ Len(f) = ((size.W + 7) \div 8) * size.H
                /\ \A c \in raw :
                       LET a == RawPixelBit(c[1], c[2])
                       IN  BitOf(f[a[1] + 1], a[2]) = IF Stored(c) < L THEN 0 ELSE 1
                /\ \A a \in (0 .. Len(f) - 1) \X (0 .. 7) :
                       a \notin {RawPixelBit(c[1], c[2]) : c \in raw} => BitOf(f[a[1] + 1], a[2]) = 1
                /\ L = 0 => \A o \in DOMAIN f : f[o] = 255

\* a render of a depth-3 plane holding a pixel of level 2 among light ones:
\* the pixel is dark in the pass of level 3 and light in the pass of level 2
C26_Witness ==
    /\ Rendered
    /\ bpp = 3
    /\ GrayFrameBuffer_get_pixel_in_raw_pos(gray, size, bpp, 0, 0) = 2
    /\ GrayFrameBuffer_get_pixel_in_raw_pos(gray, size, bpp, 1, 0) = 7
    /\ BitOf(PassFrame(3)[1], 7) = 0
    /\ BitOf(PassFrame(2)[1], 7) = 1

\* the frames sent by the render in the log, in the order sent
FramesSent == SelectSeq(log, LAMBDA e : e.k = "data_iter" /\ e.name = "")

\* every byte of the frame is 0xFF: no pixel is dark
LightFrame(f) == \A o \in DOMAIN f : f[o] = 255

\* every raw pixel of the frame is dark
DarkFrame(f) ==
    \A c \in Box(size, "Rotate0") :
        LET a == RawPixelBit(c[1], c[2]) IN BitOf(f[a[1] + 1], a[2]) = 0

\* C27 as stated: rendering a gray plane of depth b whose pixels are all at the
\* maximum level 2^b - 1 sends 2^b frames that are dark: every pass renders
\* every pixel dark.
C27_MaxLevelAllDark ==
    (Rendered /\ LevelsStored = {(2 ^ bpp) - 1}) =>
        /\ Len(FramesSent) = 2 ^ bpp
        /\ \A i \in DOMAIN FramesSent : DarkFrame(FramesSent[i].d)

\* C27, amended: rendering a gray plane of depth b whose pixels are all at the
\* maximum level 2^b - 1 sends 2^b frames, none of which has a dark pixel;
\* rendering a plane whose pixels are all at level 0 sends 2^b frames of
\* which the first 2^b - 1 (the passes of level 2^b - 1 down to 1) are dark
\* and the last (the pass of level 0) has no dark pixel.
C27_MaxLevelAllLight ==
    /\ (Rendered /\ LevelsStored = {(2 ^ bpp) - 1}) =>
           /\ Len(FramesSent) = 2 ^ bpp
           /\ \A i \in DOMAIN FramesSent : LightFrame(FramesSent[i].d)
    /\ (Rendered /\ LevelsStored = {0}) =>
           /\ Len(FramesSent) = 2 ^ bpp
           /\ \A i \in 1 .. (2 ^ bpp) - 1 : DarkFrame(FramesSent[i].d)
           /\ LightFrame(FramesSent[2 ^ bpp].d)

\* a depth-4 plane holding the maximum level everywhere has been rendered in
\* 16 frames
C27_Witness ==
    /\ Rendered
    /\ bpp = 4
    /\ driver = "SSD1608"
    /\ LevelsStored = {15}
    /\ Len(FramesSent) = 16

\* the waveform setup_fast_waveform, restore_normal_waveform of driver D load
FastWaveform(D) == WaveformAfter("default", setup_fast_waveform(D))
NormalWaveform(D) == WaveformAfter("default", restore_normal_waveform(D))

\* the waveform the controller holds when call a of the last operation is
\* made: the one loaded by the calls before a or, if the operation loads none
\* at all, the one it holds now
WaveformAt(a) ==
    IF WaveformAfter("kept", log) = "kept" THEN waveform
    ELSE WaveformAfter("kept", SubSeq(log, 1, a - 1))

\* C28: after a successful FastUpdateEpd::init, following any sequence of
\* successful display_frame, display_frame_full_update, sleep and wake_up
\* calls, every activation issued by display_frame happens while the fast
\* waveform is the waveform most recently loaded into the controller.
C28_DisplayFrameUnderFastWaveform ==
    (session = "FastUpdateEpd" /\ last.op = "display_frame") =>
        \A a \in Activations(log) : WaveformAt(a) = FastWaveform(driver)

C5_ActivationAfterTransfers ==
    (last.op \in Flushes /\ result = "Ok") =>
        LET act == Activations(log)
            xfer == Transfers(log)
        IN  /\ act # {}
            /\ \A a \in act :
                   \E w \in DOMAIN log :
                       w > a /\ log[w].k = "is_busy_on" /\ log[w].c = IdleLevel(driver)
            /\ IF session = "GrayScaleEpd" /\ last.op = "display_frame"
               THEN \A a \in act :
                        \E t \in xfer : t < a /\ \A a2 \in act : ~(t < a2 /\ a2 < a)
               ELSE \A a \in act, t \in xfer : t < a

\* the operations C6 names
Guarded == {"init", "wake_up"} \cup Flushes

\* C6: in init, wake_up and every flush, as soon as one transport call returns
\* an error the operation returns that error, and no further command or data
\* is sent: the failed call is the last the transport sees.
C6_FirstErrorReturned ==
    (last.op \in Guarded) =>
        /\ Failed(log) # {} => (result = "Err" /\ Failed(log) = {Len(log)})
        /\ Failed(log) = {} => result = "Ok"

\* C8: TriColorEpd::display_frame transfers the channel-0 plane with
\* update_channel_frame(0), then the channel-1 plane with
\* update_channel_frame(1), then calls turn_on_display exactly once; no
\* activation is sent before both planes have been sent.
C8_TriFlushOrder ==
    (session = "TriColorEpd" /\ last.op = "display_frame") =>
        LET want == << <<"update_channel_frame", <<0>>>>,
                       <<"update_channel_frame", <<1>>>>,
                       <<"turn_on_display", <<>>>> >>
            planes == SelectSeq(log, LAMBDA e : e.k = "data_iter" /\ e.ok)
        IN  /\ IsPrefix(Entered(log), want)
            /\ \A a \in Activations(log) : Cardinality({t \in Transfers(log) : t < a}) = 2
            /\ result = "Ok" =>
                   /\ Entered(log) = want
                   /\ planes = send_data_from_iter(as_bytes(framebuf.buf))
                                   \o send_data_from_iter(as_bytes(framebuf1.buf))

\* both planes, which differ, sent and the panel activated
C8_Witness ==
    /\ session = "TriColorEpd"
    /\ driver = "SSD1680"
    /\ last.op = "display_frame"
    /\ result = "Ok"
    /\ framebuf.buf # framebuf1.buf
    /\ Cardinality(Activations(log)) = 1

C10_OnlyWhileAwake ==
    (last.op = "display_frame" /\ phase # "Awake") =>
        (Transfers(log) = {} /\ Activations(log) = {})

\* C10, as the code has it: the session keeps no lifecycle state, and
\* display_frame transfers its planes and calls turn_on_display in whatever
\* phase it is called, before init and after sleep as well.
C10_FlushInEveryPhase ==
    (last.op = "display_frame" /\ result = "Ok") =>
        /\ Transfers(log) # {}
        /\ \E i \in DOMAIN Entered(log) :
               Entered(log)[i][1] \in {"turn_on_display", "WaveformDriver::turn_on_display"}

\* a flush after sleep, with no wake_up in between
C10_Witness ==
    /\ last.op = "display_frame"
    /\ phase = "Asleep"
    /\ result = "Ok"
    /\ Transfers(log) # {}
    /\ Activations(log) # {}

-----------------------------------------------------------------------------
(* Claims about the driver functions *)

\* C11: when a command or data write of a driver's wake_up fails, whichever
\* write it is, wake_up returns Err (it does not panic) and sends nothing
\* after the failed write.
C11_WakeUpReturnsErr ==
    (last.op = "wake_up" /\ Failed(log) # {}) =>
        (result = "Err" /\ Failed(log) = {Len(log)})

\* the channel argument of the update_channel_frame call a log starts with
ChannelOf(l) == Entered(l)[1][2][1]

\* C12: update_channel_frame of a multi-channel driver, called with a channel
\* other than 0 and 1, returns Err(InvalidChannel) and transfers no frame data.
C12_InvalidChannelRejected ==
    (last.op = "update_channel_frame" /\ ChannelOf(log) \notin {0, 1}) =>
        (result = "InvalidChannel" /\ Transfers(log) = {})

\* C13: a turn_on_display that returns Ok has sent the activation command of
\* its chip, and the last thing it did was a busy_wait, after the activation.
C13_ActivationThenBusyWait ==
    (last.op = "turn_on_display" /\ result = "Ok") =>
        /\ Activations(log) # {}
        /\ log[Len(log)].k = "is_busy_on"
        /\ \A a \in Activations(log) : a < Len(log)

-----------------------------------------------------------------------------
(* Claims about busy_wait *)

\* the busy line shows idle
Idle == busy = IdleLevel(driver)

\* busy_wait has returned, and the state is the one its last step left
BusyWaitReturned == pc = 0 /\ last.op \in {"send_command", "is_busy_on"}

\* C14 as stated: busy_wait returns only in a step that read the busy line
\* idle under the chip's polarity; it returns if the line ends up idle for
\* good; it never returns if the line is never idle.
C14_ReturnsOnlyOnIdle ==
    /\ [](BusyWaitReturned => (last.op = "is_busy_on" /\ last.level = IdleLevel(driver)))
    /\ (<>[]Idle) => [](pc # 0 => <>(pc = 0))
    /\ ([]~Idle) => [](pc # 0 => [](pc # 0))

\* C14, amended: busy_wait returns Ok only in a step that read the busy line
\* idle under the chip's polarity (is_busy_on() true on PervasiveDisplays,
\* UC8176 and UC8179, false on the others); it returns if the line ends up
\* idle for good; it never returns Ok if the line is never idle; a return that
\* did not read the line idle is the Err of a failed write of UC8179's status
\* command 0x71.
C14_ReturnsOkOnlyOnIdle ==
    /\ [](BusyWaitReturned =>
            \/ result = "Ok" /\ last.op = "is_busy_on" /\ last.level = IdleLevel(driver)
            \/ result = "Err" /\ last.op = "send_command" /\ driver = "UC8179")
    /\ (<>[]Idle) => [](pc # 0 => <>(pc = 0))
    /\ ([]~Idle) => [](BusyWaitReturned => result # "Ok")

\* an inverted-polarity busy_wait that returned Ok after reading the line
\* more than once
C14_Witness ==
    /\ BusyWaitReturned /\ result = "Ok"
    /\ driver = "PervasiveDisplays" /\ polls = MaxPolls /\ last.level = 1

\* C15 as stated: busy_wait never returns Err, for any driver, whatever the
\* transport does.
C15_NeverErr == BusyWaitReturned => result = "Ok"

\* C15, amended: busy_wait returns Err only on UC8179, and only when the
\* write of its status command 0x71 failed; on every other driver it loops or
\* returns Ok.
C15_ErrOnlyFromStatusCommand ==
    BusyWaitReturned =>
        \/ result = "Ok"
        \/ result = "Err" /\ driver = "UC8179" /\ last.op = "send_command" /\ last.x = \h71

\* UC8179::busy_wait returned Err from its status command
C15_Witness ==
    BusyWaitReturned /\ driver = "UC8179" /\ result = "Err" /\ last.x = \h71

-----------------------------------------------------------------------------
(* Claims about the EPDInterface *)

\* the calls of the last function that returned Ok
Done(k) == {i \in DOMAIN log : log[i].k = k /\ log[i].ok}

LastInterfaceCall ==
    last.op \in {"send_command", "send_data", "send_data_from_iter", "send_command_data"}

\* C32: whenever send_command, send_data or send_data_from_iter has asserted
\* chip select (driven it low), chip select is deasserted (high) again when
\* the call returns, on every return path: success, bus-write error and
\* data/command-pin error.
C32_ChipSelectReleased ==
    (/\ last.op \in {"send_command", "send_data", "send_data_from_iter"}
     /\ Done("cs.set_low") # {}) =>
        pins.cs = "high"

\* the DisplayError that names the peripheral a call is made on
ErrorOf(k) ==
    CASE k \in {"cs.set_low", "cs.set_high"} -> "CSError"
      [] k \in {"dc.set_low", "dc.set_high"} -> "DCError"
      [] k = "spi.write" -> "BusWriteError"

\* the command of the last send_command_data returned Err: its chip select,
\* its data/command line or its write, the third call, failed
CommandFailed ==
    \E i \in Failed(log) :
        \/ i = 1
        \/ log[i].k = "dc.set_low"
        \/ i = 3 /\ log[i].k = "spi.write"

\* C33: EPDInterface surfaces each transport failure as the matching error
\* of the call that hit it: a chip-select pin failure gives CSError, a
\* data/command pin failure DCError, an SPI write failure BusWriteError (the
\* first failure, when more than one call fails); when the chip-select or
\* the data/command pin fails no byte is written on the bus, and
\* send_command_data sends no data when its command failed.
C33_FailuresSurfaced ==
    LastInterfaceCall =>
        /\ (Failed(log) = {}) <=> (result = "Ok")
        /\ Failed(log) # {} =>
               LET i == CHOOSE j \in Failed(log) : \A k \in Failed(log) : j <= k
               IN  result = ErrorOf(log[i].k)
        /\ result \in {"CSError", "DCError"} =>
               LET sel == {i \in DOMAIN log : log[i].k = "cs.set_low"}
                   t == CHOOSE j \in sel : \A k \in sel : k <= j
               IN  \A i \in DOMAIN log : i > t => log[i].k # "spi.write"
        /\ (last.op = "send_command_data" /\ CommandFailed) =>
               /\ result # "Ok"
               /\ \A i \in DOMAIN log : log[i].k # "dc.set_high"
               /\ Cardinality({i \in DOMAIN log : log[i].k = "spi.write"}) <= 1

-----------------------------------------------------------------------------
(* Claims about the arithmetic of the gray depths *)

\* C31: for every gray depth the library defines (b = 2, 3, 4 and 8), MAX_VALUE
\* computed in 8-bit unsigned arithmetic equals 2^b - 1, and the bound of the
\* rendering loop, MAX_VALUE + 1, equals 2^b without overflow or wrap-around.
C31_MaxValueFitsU8 ==
    /\ ~ShlOverflows(bpp)
    /\ MAX_VALUE(bpp) = (2 ^ bpp) - 1
    /\ ~PassBoundOverflows(bpp)
    /\ MAX_VALUE(bpp) + 1 = 2 ^ bpp

-----------------------------------------------------------------------------
(* Claims about the iterator transfers *)

\* the two-plane chips whose update_frame drives them as monochrome
TwoPlaneAsMonochrome == {"SSD1619A", "PervasiveDisplays"}

\* the command that opens the second channel: 0x13 on the UC81xx chips, Write
\* RAM (RED) 0x26 on the SSD16xx chips
SecondChannelCommand(D) == IF D \in UC81xx THEN \h13 ELSE \h26

\* C30: send_data_from_iter returns Ok(n) with n exactly the number of bytes
\* it wrote to the bus, the length of the iterator; and the update_frame of
\* SSD1619A and of PervasiveDisplays then writes exactly n zero bytes to the
\* second channel, so that both channels receive the same number of bytes.
C30_ZeroFillMatchesPlane ==
    (last.op = "update_frame" /\ result = "Ok") =>
        LET buffer == Entered(log)[1][2]
            t == Transfers(log)
        IN  /\ \A i \in t : log[i].name = "" =>
                   /\ log[i].d = buffer
                   /\ log[i].n = Len(log[i].d)
            /\ driver \in TwoPlaneAsMonochrome =>
                   \E i, j \in t :
                       /\ t = {i, j} /\ i < j
                       /\ log[i].name = ""
                       /\ log[j].name = "iter::repeat(&0)"
                       /\ log[j].n = log[i].n
                       /\ log[j - 1].k = "command"
                       /\ log[j - 1].c = SecondChannelCommand(driver)

\* an SSD1619A update_frame of a two-byte plane returned Ok: two zero bytes
\* went to the second channel after Write RAM (RED)
C30_Witness ==
    /\ driver = "SSD1619A"
    /\ last.op = "update_frame" /\ result = "Ok"
    /\ Entered(log)[1][2] = <<\hff, \h00>>
    /\ \E j \in Transfers(log) :
           /\ log[j].name = "iter::repeat(&0)" /\ log[j].n = 2
           /\ log[j - 1].c = \h26

-----------------------------------------------------------------------------
(* Claims about rotation *)

\* the rotation of the plane the type reports its bounding box from
CurrentRotation ==
    IF session \in {"GrayFrameBuffer", "GrayScaleEpd"} THEN gray.rotation
    ELSE framebuf.rotation

\* C19: bounding_box of a binary plane, of a gray plane and of every session
\* has its origin at (0,0) and the size (HEIGHT, WIDTH) when the current
\* rotation is 90 or 270, (WIDTH, HEIGHT) when it is 0 or 180, after any
\* sequence of set_rotation calls; a call with 90 or 270 makes that the current
\* rotation.
C19_BoundingBoxFollowsRotation ==
    /\ bounding_box.top_left = <<0, 0>>
    /\ CurrentRotation \in {"Rotate90", "Rotate270"} =>
           bounding_box.size = <<size.H, size.W>>
    /\ CurrentRotation \in {"Rotate0", "Rotate180"} =>
           bounding_box.size = <<size.W, size.H>>
    /\ (last.op = "set_rotation" /\ last.x \in {90, 270}) =>
           bounding_box.size = <<size.H, size.W>>
    /\ (last.op = "set_rotation" /\ last.x \in {0, 180}) =>
           bounding_box.size = <<size.W, size.H>>

\* a TriColorEpd whose last set_rotation asked for 270: its box is transposed
C19_Witness ==
    /\ session = "TriColorEpd"
    /\ last.op = "set_rotation" /\ last.x = 270
    /\ bounding_box.size = <<size.H, size.W>>
    /\ size.H # size.W

\* the rotation the claim has set_rotation(r) select
Selected(r) ==
    IF r = 90 THEN "Rotate90"
    ELSE IF r = 180 THEN "Rotate180"
    ELSE IF r = 270 THEN "Rotate270"
    ELSE "Rotate0"

\* C37: set_rotation(r) and set_mirroring(m) never change any byte of the
\* plane buffer, and after any sequence of calls the rotation is one of the
\* four supported values: r in {0, 90, 180, 270} selects that rotation, and
\* any other r selects rotation 0 whatever the previous rotation was.
C37_RotationSelected ==
    /\ {framebuf.rotation, framebuf1.rotation, gray.rotation}
           \subseteq {"Rotate0", "Rotate90", "Rotate180", "Rotate270"}
    /\ last.op \in {"set_rotation", "set_mirroring"} =>
           /\ framebuf.buf = prev
           /\ framebuf1.buf = prev1
           /\ gray.buf = gprev
    /\ last.op = "set_rotation" =>
           /\ CurrentRotation = Selected(last.x)
           /\ session = "TriColorEpd" => framebuf1.rotation = Selected(last.x)

\* set_rotation(45) on a mirrored, inverted binary plane: rotation 0 is
\* selected and the bytes are those the plane was constructed with
C37_Witness ==
    /\ session = "FrameBuffer"
    /\ last.op = "set_rotation" /\ last.x = 45
    /\ framebuf.rotation = "Rotate0"
    /\ framebuf.mirroring = "Origin"
    /\ framebuf.inverted
    /\ framebuf.buf = FrameBuffer_new_inverted(size).buf

-----------------------------------------------------------------------------
(* Claims about the planes of a TriColorEpd *)

\* the BinaryColor (TRUE = On) a plane holds at a logical coordinate of its
\* bounding box, buf being its bytes: On is stored as a cleared bit, as a set
\* bit in an inverted plane
PixelOf(fb, buf, sz, c) ==
    LET a == AddrOf(sz, fb.rotation, fb.mirroring, c[1], c[2])
    IN  (BitOf(buf[a[1]], a[2]) = 0) # fb.inverted

\* C7: TriColorEpd::draw_iter writes each pixel at the same logical coordinate
\* in both planes: White -> channel 0 On, channel 1 Off; Black -> Off, Off;
\* Red -> On, On; and no other pixel of either plane changes.
C7_TriColorTable ==
    LastDraw =>
        LET c == <<last.x, last.y>>
            box == Box(size, framebuf.rotation)
            on0 == last.tricolor \in {"White", "Red"}
            on1 == last.tricolor = "Red"
        IN  /\ panicked = "none"
            /\ framebuf1.rotation = framebuf.rotation
            /\ c \in box =>
                   /\ PixelOf(framebuf, framebuf.buf, size, c) = on0
                   /\ PixelOf(framebuf1, framebuf1.buf, size, c) = on1
            /\ \A q \in box \ {c} :
                   /\ PixelOf(framebuf, framebuf.buf, size, q) = PixelOf(framebuf, prev, size, q)
                   /\ PixelOf(framebuf1, framebuf1.buf, size, q)
                          = PixelOf(framebuf1, prev1, size, q)

\* C35: a freshly constructed TriColorEpd, before any draw, holds the
\* all-White image: every pixel decodes through the tri-colour table as
\* channel 0 On and channel 1 Off.
C35_FreshTriColorIsWhite ==
    (session = "TriColorEpd" /\ draws = 0) =>
        \A c \in Box(size, framebuf.rotation) :
            /\ PixelOf(framebuf, framebuf.buf, size, c)
            /\ ~PixelOf(framebuf1, framebuf1.buf, size, c)

-----------------------------------------------------------------------------
(* Claims about the inverted flag *)

\* C34: FrameBuffer::set_inverted(v) preserves the logical image for every v
\* and every prior state: the colour of each pixel, the stored bit read
\* through the inverted flag as set_pixel and fill encode it, is the same
\* after the call as before, including when v equals the current flag.
C34_SetInvertedKeepsImage ==
    [][last'.op = "set_inverted" =>
           \A c \in Box(size, framebuf.rotation) :
               PixelOf(framebuf', framebuf'.buf, size, c)
                   = PixelOf(framebuf, framebuf.buf, size, c)]_vars

====
